---- MODULE Spec2Model ----
(***************************************************************************)
(* Model of the rust-crawler orchestration: the Redis job queue            *)
(* (queue.rs), the polling worker (worker.rs), the cron scheduler          *)
(* (scheduler.rs), the request handler (api.rs) and the tasks table        *)
(* (db.rs) with the blob store (storage.rs).                               *)
(***************************************************************************)
EXTENDS Integers, Sequences, FiniteSets, TLC

(***************************************************************************)
(* Bounds of the model.                                                    *)
(***************************************************************************)
MaxPushes == 2      \* LPUSH commands executed on crawl_queue
MaxSubmits == 2     \* POST /crawl requests
MaxResults == 1     \* results on a results page

VARIABLES
    workers,    \* worker instances polling the queue
    queue,      \* Redis list "crawl_queue": JSON values, head first
    pc,         \* per worker: position in start_worker / process_job
    job,        \* per worker: the CrawlJob being processed (Option)
    serp,       \* per worker: serp_data of process_job
    first,      \* per worker: first_result_data of process_job
    upload,     \* per worker: the store_html call of process_job (Option)
    db,         \* tasks table: id -> row
    blobs,      \* object store: key -> content
    apiTasks,   \* tasks spawned by trigger_crawl: task id -> local state
    acks,       \* CrawlResponse values returned by trigger_crawl
    files,      \* local files written by the spawned tasks
    uuids,      \* number of Uuid::new_v4() values carried by a job or task
    pushed,     \* history: jobs in the order of their LPUSH
    popped,     \* history: jobs in the order pop_job returned them
    stepLog,    \* history, per worker: steps of the current process_job
    searched,   \* history: ids whose search returned Ok
    workerLog,  \* history: terminal outcome lines printed by the worker
    call,       \* a call of a search function of crawler.rs: its frame
    tab,        \* the renderer commands of one attempt: the tab's frame
    pool,       \* PROXY_MANAGER: descriptors, rotation cursor, last result
    redirect,   \* a call of decode_search_url: the url and what it returned
    site,       \* a call of extract_website_data after the page was read
    settle,     \* the wait for the results page to settle: clock and timers
    chain,      \* the extraction of search_google_attempt: scripts evaluated
    boot        \* main(): the initialisation of the stores and what is started

vars == <<workers, queue, pc, job, serp, first, upload, db, blobs, apiTasks, acks,
          files, uuids, pushed, popped, stepLog, searched, workerLog, call, tab,
          pool, redirect, site, settle, chain, boot>>

\* the frames of the calls modelled apart from the orchestration
unitVars == <<site, settle, chain, boot>>

(***************************************************************************)
(* Data.                                                                   *)
(***************************************************************************)
None == <<>>
Some(x) == <<x>>

\* queue.rs: struct CrawlJob
CrawlJob(id, keyword, engine, selectors) ==
    [id |-> id, keyword |-> keyword, engine |-> engine, selectors |-> selectors]

\* Uuid::new_v4().to_string(): the n-th value, different from all before it
\* and from the ids producers choose themselves
Uuid(n) == 100 + n

\* serde_json::to_string(&job): a JSON object; selectors is null or an object
\* (a set of key/value members)
to_string(j) ==
    <<j.id, j.keyword, j.engine,
      IF j.selectors = None THEN <<"null">>
      ELSE <<"object", {<<k, j.selectors[1][k]>> : k \in DOMAIN j.selectors[1]}>> >>

\* serde_json::from_str::<CrawlJob>(&json)
from_str(s) ==
    [id |-> s[1], keyword |-> s[2], engine |-> s[3],
     selectors |-> IF s[4][1] = "null" THEN None
                   ELSE Some([k \in {m[1] : m \in s[4][2]} |->
                                 (CHOOSE m \in s[4][2] : m[1] = k)[2]])]

\* RPUSH in place of LPUSH: push and pop at the same end
RPush(list, v) == list \o <<v>>

\* Redis LPUSH key value
LPush(list, v) == <<v>> \o list

\* Redis RPOP key: the reply
RPopReply(list) == IF list = <<>> THEN None ELSE Some(list[Len(list)])

\* a read of the tail (LINDEX -1) in place of RPOP: nothing is removed
RPopRestKeep(list) == list

\* Redis RPOP key: the list afterwards
RPopRest(list) == IF list = <<>> THEN <<>> ELSE SubSeq(list, 1, Len(list) - 1)

(***************************************************************************)
(* Inputs and outcomes of the external calls.                              *)
(***************************************************************************)
\* jobs handed to push_job by a producer other than the scheduler: two jobs
\* under the same id, one with a selector map, and one with an engine name
\* the worker does not know
ExtJobs ==
    {CrawlJob(1, "kw", "google", None),
     CrawlJob(1, "http://example.test", "generic", Some([title |-> "h1"])),
     CrawlJob(2, "kw", "yahoo", None)}

\* scheduler.rs: the job built by the daily trigger
DailyJob(id) == CrawlJob(id, "daily trend analysis", "bing", None)

\* crawler.rs: SerpData with n results
SerpData(n, link) == [results |-> [i \in 1..n |-> link]]

\* a dispatch that knows the three engine names only
SearchFnStrict(engine) ==
    IF engine = "google" THEN "search_google"
    ELSE IF engine = "generic" THEN "generic_crawl"
    ELSE IF engine = "bing" THEN "search_bing"
    ELSE "unknown engine"

\* worker.rs: the search function process_job dispatches to
SearchFn(engine) ==
    IF engine = "google" THEN "search_google"
    ELSE IF engine = "generic" THEN "generic_crawl"
    ELSE "search_bing"

\* api.rs: the search function the spawned task dispatches to
ApiSearchFn(engine) ==
    IF engine = "google" THEN "search_google" ELSE "search_bing"

\* Ok values a search function can return: search_google returns Ok only
\* with at least one result, generic_crawl always pushes exactly one result
\* (the target url), search_bing returns whatever it extracted
SearchOk(fn, keyword) ==
    IF fn = "search_google" THEN {SerpData(n, "link") : n \in 1..MaxResults}
    ELSE IF fn = "generic_crawl" THEN {SerpData(1, keyword)}
    ELSE {SerpData(n, "link") : n \in 0..MaxResults}

\* crawler.rs: WebsiteData values extract_website_data can return
WebsiteDatas ==
    {[html |-> "<html>", main_text |-> "text", meta_description |-> Some("d"),
      meta_author |-> None, meta_date |-> None],
     [html |-> "", main_text |-> "", meta_description |-> None,
      meta_author |-> None, meta_date |-> None]}

\* serde_json::to_string(&serp_data)
results_json(sd) == <<"results", sd.results>>

\* worker.rs: the s3 key of the raw HTML
s3_key(j) == <<j.engine, "/", j.id, ".html">>

\* worker.rs: "Prepare data for DB" and the bound parameters of the INSERT
TaskRow(id, keyword, engine, sd, frd) ==
    [id |-> id, keyword |-> keyword, engine |-> engine, status |-> "completed",
     results_json |-> results_json(sd),
     extracted_text |-> IF frd = None THEN "" ELSE frd[1].main_text,
     first_page_html |-> IF frd = None THEN "" ELSE frd[1].html,
     meta_description |-> IF frd = None THEN None ELSE frd[1].meta_description,
     meta_author |-> IF frd = None THEN None ELSE frd[1].meta_author,
     meta_date |-> IF frd = None THEN None ELSE frd[1].meta_date]

\* an upsert (ON CONFLICT (id) DO UPDATE): never a duplicate-key failure
InsertOkUpsert(table, row) == TRUE

\* db.rs: INSERT into a table whose id column is the PRIMARY KEY; the
\* statement fails on an id that already has a row
InsertOk(table, row) == row.id \notin DOMAIN table

Insert(table, row) ==
    [i \in DOMAIN table \cup {row.id} |-> IF i = row.id THEN row ELSE table[i]]

Put(store, key, content) ==
    [k \in DOMAIN store \cup {key} |-> IF k = key THEN content ELSE store[k]]

(***************************************************************************)
(* Search automation (crawler.rs): strings, rendered pages and results.    *)
(***************************************************************************)
MaxBlocks == 11               \* candidate result blocks on a rendered page
MaxAttempts == 3              \* search_google: for attempt in 1..=3
ResultCap == 10               \* search_google_attempt: slice(0, 10)
MinResultsPageLen == 50000    \* search_bing: html_content.len() < 50_000

\* a string is a sequence of words; a word is its lowercase spelling and
\* whether it is written with a capital letter
Word(w) == <<w, FALSE>>
Capital(w) == <<w, TRUE>>

\* str::to_lowercase
to_lowercase(str) == [i \in 1..Len(str) |-> <<str[i][1], FALSE>>]

\* str::contains
contains(str, pat) ==
    \E i \in 0..(Len(str) - Len(pat)) : SubSeq(str, i + 1, i + Len(pat)) = pat

\* search_bing: challenge_patterns of the check made right after the settle
challenge_patterns_1 ==
    {<<Capital("prove"), Word("you're"), Word("not"), Word("a"), Word("robot")>>,
     <<Word("humanity")>>,
     <<Word("unusual"), Word("traffic")>>,
     <<Word("automated"), Word("requests")>>,
     <<Word("hcaptcha")>>,
     <<Word("recaptcha")>>,
     <<Word("turnstile")>>,
     <<Word("security"), Word("check")>>,
     <<Capital("one"), Word("last"), Word("step")>>}

\* search_bing: challenge_patterns of the "Tier 1+" check after extraction
challenge_patterns_2 ==
    {<<Capital("prove"), Word("you're"), Word("not"), Word("a"), Word("robot")>>,
     <<Capital("prove"), Word("your"), Word("humanity")>>,
     <<Word("unusual"), Word("traffic")>>,
     <<Word("automated"), Word("requests")>>,
     <<Word("hcaptcha")>>,
     <<Word("recaptcha")>>,
     <<Word("blocked")>>}

\* search_bing: challenge_patterns.iter().any(|p|
\*     html_content.to_lowercase().contains(&p.to_lowercase()))
is_challenge(patterns, html_content) ==
    \E p \in patterns : contains(to_lowercase(html_content), to_lowercase(p))

\* search_bing: is_too_small
is_too_small(len) == len < MinResultsPageLen

\* the block phrases known to the code: both lists of search_bing
BlockPhrases == challenge_patterns_1 \cup challenge_patterns_2

\* HTML texts a rendered page can have: a results page, a page of the
\* provider saying "Unusual Traffic", and a page saying "blocked"
HtmlTexts ==
    {<<Word("search"), Word("results")>>,
     <<Word("our"), Word("systems"), Word("detected"),
       Capital("unusual"), Capital("traffic")>>,
     <<Word("access"), Word("blocked")>>}

\* crawler.rs SearchResult: the i-th candidate result block of a page
SearchResult(i) ==
    [title |-> <<"title", i>>, link |-> <<"link", i>>, snippet |-> <<"snippet", i>>]

\* the candidate result blocks of a page, in document order
Blocks(n) == [i \in 1..n |-> SearchResult(i)]

\* an element of a parsed document: its tag and its text
Element(tag, text) == [tag |-> tag, text |-> text]

\* parsed documents: one with a title and two h1 elements, one with a single
\* h1 and no title
Doms ==
    {<<Element("title", "Example"), Element("h1", "Hello"), Element("h1", "World")>>,
     <<Element("h1", "Hello")>>}

\* rendered pages: the text, the length of the HTML, the result blocks and
\* the parsed document
Pages ==
    [html : HtmlTexts,
     len : {MinResultsPageLen - 1, MinResultsPageLen},
     blocks : {Blocks(n) : n \in {0, 1, MaxBlocks}},
     dom : Doms]

\* errors of the renderer: Browser::new / new_tab, navigate_to /
\* wait_until_navigated / wait_for_element, evaluate / get_content
RendererErrors == {"LaunchError", "NavigationError", "ScriptError"}

\* Result<SerpData>
Ok(data) == [tag |-> "Ok", value |-> data]
Err(e) == [tag |-> "Err", value |-> e]

\* the frame of a search call before any call was made; debug holds the
\* files the call wrote under debug/, failure_log the lines it appended to
\* logs/crawl_failures.log
IdleCall ==
    [pc |-> "idle", fn |-> "none", keyword |-> "", selectors |-> None,
     attempt |-> 0,
     last_error |-> "", waits |-> <<>>, launches |-> 0, page |-> None,
     method |-> "none", reason |-> "none", ignored |-> {}, ret |-> None,
     caller |-> None, debug |-> {}, failure_log |-> <<>>]

(***************************************************************************)
(* The renderer commands of one attempt (crawler.rs), in program order up  *)
(* to the read of the page.                                                *)
(***************************************************************************)
\* a renderer call followed by `?`: its error is returned by the function
Try(op) == [op |-> op, on_err |-> "return", state |-> "", when |-> "always"]

\* a renderer call whose Err is dropped (`let _ =` without `?`, `if let Ok`,
\* `match` with an Err arm that only prints)
Tolerated(op) == [op |-> op, on_err |-> "ignore", state |-> "", when |-> "always"]

\* a call that returns no Result
Infallible(op) == [op |-> op, on_err |-> "never", state |-> "", when |-> "always"]

\* commands made in a state of the attempt (the states of the search
\* automation: LAUNCH, NAVIGATE_HOME, ..., EXTRACT)
In(state, commands) ==
    [i \in 1..Len(commands) |-> [commands[i] EXCEPT !.state = state]]

\* a command inside an `if`: it is made only when an earlier script
\* returned this value, or when the earlier command of this name failed
When(cond, command) == [command EXCEPT !.when = cond]

\* search_bing from get_next_proxy to the selection of the result blocks
search_bing_commands ==
    In("LAUNCH",
       <<Infallible("get_next_proxy"), Try("Browser::new"), Try("new_tab"),
         Try("enable_debugger"), Try("AddScriptToEvaluateOnNewDocument")>>)
    \o In("NAVIGATE_HOME", <<Try("navigate_to"), Try("wait_until_navigated")>>)
    \o In("TYPE_QUERY",
          <<Try("wait_for_element"), Try("click"), Try("evaluate focus"),
            Try("type_str")>>)
    \o In("SUBMIT", <<Try("press_key Enter"), Try("wait_until_navigated")>>)
    \o In("SETTLE",
          <<Try("evaluate mouse move"), Try("evaluate scroll"),
            Infallible("sleep 3s")>>)
    \o In("CHALLENGE_CHECK", <<Try("get_content"), Infallible("is_challenge")>>)
    \o In("EXTRACT",
          <<Tolerated("wait_for_element results"), Tolerated("capture_screenshot"),
            Try("get_content"), Infallible("select li.b_algo")>>)

\* search_google_attempt from get_next_proxy to the read of the content for
\* the related data, on a results page with results (without results the
\* content is read once more for debug/debug_google_tier1.html). The mouse
\* movement and the screenshot that precede the typing are counted to
\* TYPE_QUERY.
search_google_attempt_commands ==
    In("LAUNCH",
       <<Infallible("get_next_proxy"), Try("Browser::new"), Try("new_tab"),
         Try("enable_debugger"), Try("AddScriptToEvaluateOnNewDocument")>>)
    \o In("NAVIGATE_HOME", <<Try("navigate_to"), Try("wait_until_navigated")>>)
    \o In("CONSENT_CHECK",
          <<Try("evaluate consent"),
            When("consent_clicked", Try("wait_until_navigated"))>>)
    \o In("TYPE_QUERY",
          <<Try("evaluate mouse move"), Tolerated("capture_screenshot"),
            Try("wait_for_element"), Try("click"), Try("evaluate focus"),
            Try("type_str")>>)
    \o In("SUBMIT", <<Try("press_key Enter"), Try("wait_until_navigated")>>)
    \o In("AUTOCORRECT_CHECK",
          <<Try("evaluate autocorrect"),
            When("clicked", Try("wait_until_navigated"))>>)
    \o In("SETTLE",
          <<Try("evaluate mouse move"), Try("evaluate scroll"),
            Infallible("sleep 3s"), Try("evaluate wait_script")>>)
    \o In("EXTRACT",
          <<Tolerated("evaluate dom_extract_script"),
            When("evaluate dom_extract_script",
                 Tolerated("evaluate js_extract_script")),
            Try("get_content"), Infallible("select paa")>>)

\* generic_crawl up to `let html_content = tab.get_content()?`
generic_crawl_commands ==
    <<Try("Browser::new"), Try("new_tab"), Try("navigate_to"),
      Try("wait_until_navigated"), Tolerated("evaluate scroll"),
      Try("get_content")>>

\* extract_website_data up to the read of document.documentElement.outerHTML
extract_website_data_commands ==
    <<Infallible("get_next_proxy"), Try("Browser::new"), Try("new_tab"),
      Try("enable_debugger"), Try("AddScriptToEvaluateOnNewDocument"),
      Try("navigate_to"), Tolerated("wait_for_element"),
      Try("evaluate outerHTML")>>

\* the functions of crawler.rs that open a tab
TabFns ==
    {"search_bing", "search_google_attempt", "generic_crawl",
     "extract_website_data"}

Commands(fn) ==
    CASE fn = "search_bing" -> search_bing_commands
      [] fn = "search_google_attempt" -> search_google_attempt_commands
      [] fn = "generic_crawl" -> generic_crawl_commands
      [] fn = "extract_website_data" -> extract_website_data_commands
      [] OTHER -> <<>>

\* the commands that load a document in the tab
PageLoads == {"navigate_to", "press_key Enter"}

\* the commands that only imitate a person: the typing of the keyword with
\* its random delays, the synthetic mouse movement, the scrolling
HumanInteraction == {"type_str", "evaluate mouse move", "evaluate scroll"}

\* the values of the scripts that decide whether a later command is made
Returns(op) ==
    IF op = "evaluate consent" THEN {"consent_clicked", "no_consent"}
    ELSE IF op = "evaluate autocorrect" THEN {"clicked", "no_autocorrect"}
    ELSE {"ok"}

\* the renderer-level error of a failed command
RendererError(op) ==
    IF op \in {"Browser::new", "new_tab"} THEN "LaunchError"
    ELSE IF op \in {"navigate_to", "wait_until_navigated", "wait_for_element",
                    "wait_for_element results", "press_key Enter", "click"}
         THEN "NavigationError"
    ELSE "ScriptError"

\* the frame of the tab before any function opened one
IdleTab ==
    [fn |-> "none", at |-> 1, script |-> FALSE, loads |-> <<>>,
     failed |-> {}, values |-> {}, states |-> <<>>, proxy |-> None,
     ret |-> None]

(***************************************************************************)
(* Egress pool (crate::proxy, PROXY_MANAGER): the descriptors in insertion *)
(* order and the rotation cursor.                                          *)
(***************************************************************************)
MaxRotations == 4             \* calls of get_next_proxy
MaxOutcomes == 4              \* calls of record_outcome
FailureThreshold == 3         \* consecutive failures that demote a descriptor

\* proxy strings given to add, as their tokens: "host:port", a second host
\* with credentials, and a string without a port
ProxySpecs ==
    {<<"10.0.0.1", ":", "8080">>,
     <<"user", ":", "pass", "@", "10.0.0.2", ":", "8080">>,
     <<"10.0.0.3">>}

\* add: "host:port" or "user:pass@host:port"; id = host:port
parse_proxy(spec) ==
    LET at == {i \in 1..Len(spec) : spec[i] = "@"}
        cut == IF at = {} THEN 0 ELSE CHOOSE i \in at : TRUE
        userpass == SubSeq(spec, 1, cut - 1)
        hostport == SubSeq(spec, cut + 1, Len(spec))
    IN IF /\ Len(hostport) = 3 /\ hostport[2] = ":"
          /\ (cut = 0 \/ (Len(userpass) = 3 /\ userpass[2] = ":"))
       THEN Ok([id |-> hostport,
                credentials |-> IF cut = 0 THEN None
                                ELSE Some(<<userpass[1], userpass[3]>>)])
       ELSE Err("ParseError")

\* the ids the proxy strings can give
ProxyIds ==
    {parse_proxy(spec).value.id : spec \in {s \in ProxySpecs : parse_proxy(s).tag = "Ok"}}

\* ProxyDescriptor as add creates it
ProxyDescriptor(parsed) ==
    [id |-> parsed.id, credentials |-> parsed.credentials, enabled |-> TRUE,
     healthy |-> TRUE, success_count |-> 0, failure_count |-> 0,
     consecutive_failures |-> 0]

\* the ids of the descriptors of the pool
Ids(proxies) == {proxies[i].id : i \in 1..Len(proxies)}

\* the descriptors in rotation, in insertion order
enabled_proxies(proxies) == SelectSeq(proxies, LAMBDA d : d.enabled)

\* the cursor is read without being advanced
cursor_load(cursor) == cursor

\* get_next: the cursor after the atomic increment
cursor_fetch_add(cursor) == cursor + 1

\* get_next: the descriptor for the cursor value n, none without a
\* descriptor in rotation
select_proxy(proxies, n) ==
    IF enabled_proxies(proxies) = <<>> THEN None
    ELSE Some(enabled_proxies(proxies)[(n % Len(enabled_proxies(proxies))) + 1])

\* add(spec): <<descriptors, result>>
add(proxies, spec) ==
    IF parse_proxy(spec).tag = "Err" THEN <<proxies, Err("ParseError")>>
    ELSE IF parse_proxy(spec).value.id \in Ids(proxies)
         THEN <<proxies, Err("DuplicateError")>>
    ELSE <<Append(proxies, ProxyDescriptor(parse_proxy(spec).value)),
           Ok(parse_proxy(spec).value.id)>>

\* remove(id): <<descriptors, result>>
remove(proxies, id) ==
    IF id \notin Ids(proxies) THEN <<proxies, Err("NotFoundError")>>
    ELSE <<SelectSeq(proxies, LAMBDA d : d.id # id), Ok(id)>>

\* enable(id): <<descriptors, result>>
enable(proxies, id) ==
    IF id \notin Ids(proxies) THEN <<proxies, Err("NotFoundError")>>
    ELSE <<[i \in 1..Len(proxies) |->
               IF proxies[i].id = id THEN [proxies[i] EXCEPT !.enabled = TRUE]
               ELSE proxies[i]],
           Ok(id)>>

\* the descriptor stays in rotation
disable_noop(proxies, id) ==
    IF id \notin Ids(proxies) THEN <<proxies, Err("NotFoundError")>>
    ELSE <<proxies, Ok(id)>>

\* disable(id): <<descriptors, result>>
disable(proxies, id) ==
    IF id \notin Ids(proxies) THEN <<proxies, Err("NotFoundError")>>
    ELSE <<[i \in 1..Len(proxies) |->
               IF proxies[i].id = id THEN [proxies[i] EXCEPT !.enabled = FALSE]
               ELSE proxies[i]],
           Ok(id)>>

\* the descriptor is demoted one failure late
demoted_late(consecutive_failures) == consecutive_failures > FailureThreshold

\* record_outcome: the demotion rule
demoted(consecutive_failures) == consecutive_failures >= FailureThreshold

\* record_outcome(id, success) on the descriptor of id
recorded(d, success) ==
    IF success
    THEN [d EXCEPT !.success_count = @ + 1, !.consecutive_failures = 0,
                   !.healthy = TRUE]
    ELSE [d EXCEPT !.failure_count = @ + 1,
                   !.consecutive_failures = @ + 1,
                   !.healthy = IF demoted(d.consecutive_failures + 1)
                               THEN FALSE ELSE @]

\* record_outcome(id, success): the descriptors
record_outcome(proxies, id, success) ==
    [i \in 1..Len(proxies) |->
        IF proxies[i].id = id THEN recorded(proxies[i], success) ELSE proxies[i]]

\* the pool of a process that loaded no proxy
\* (served, outcomes and disabled are history: the returns of get_next
\* since the pool last changed, per id the outcomes recorded for its
\* descriptor, and the ids disabled and not enabled or removed since)
EmptyPool ==
    [proxies |-> <<>>, cursor |-> 0, last |-> None, served |-> <<>>,
     outcomes |-> [id \in ProxyIds |-> <<>>], disabled |-> {}]

(***************************************************************************)
(* De-redirection (crawler.rs decode_search_url). A string is the sequence *)
(* of the bytes of its UTF-8 encoding.                                     *)
(***************************************************************************)
MaxDestLen == 3               \* characters of a wrapped destination

\* str::split(pat): the pieces between the occurrences of pat, left to right
RECURSIVE split(_, _)
split(str, pat) ==
    IF ~contains(str, pat) THEN <<str>>
    ELSE LET i == CHOOSE k \in 0..(Len(str) - Len(pat)) :
                    /\ SubSeq(str, k + 1, k + Len(pat)) = pat
                    /\ \A m \in 0..(k - 1) : SubSeq(str, m + 1, m + Len(pat)) # pat
         IN <<SubSeq(str, 1, i)>>
            \o split(SubSeq(str, i + Len(pat) + 1, Len(str)), pat)

\* only letters and digits are in the map
decode_map_alnum(c) ==
    IF c \in 65..90 THEN Some(c - 65)
    ELSE IF c \in 97..122 THEN Some(c - 97 + 26)
    ELSE IF c \in 48..57 THEN Some(c - 48 + 52)
    ELSE None

\* base64_decode: decode_map.get(&c), the index of c in
\* "ABCDEFGHIJKLMNOPQRSTUVWXYZabcdefghijklmnopqrstuvwxyz0123456789+/"
decode_map(c) ==
    IF c \in 65..90 THEN Some(c - 65)
    ELSE IF c \in 97..122 THEN Some(c - 97 + 26)
    ELSE IF c \in 48..57 THEN Some(c - 48 + 52)
    ELSE IF c = 43 THEN Some(62)
    ELSE IF c = 47 THEN Some(63)
    ELSE None

\* base64_decode: the loop over the characters; a character that is not in
\* the map is skipped (buffer, a u32, holds fewer than 8 bits between two
\* characters and so never more than 13)
RECURSIVE base64_loop(_, _, _, _)
base64_loop(input, buffer, bits_collected, output) ==
    IF input = <<>> THEN output
    ELSE IF decode_map(Head(input)) = None
         THEN base64_loop(Tail(input), buffer, bits_collected, output)
    ELSE LET shifted == buffer * 64 + decode_map(Head(input))[1]
             bits == bits_collected + 6
         IN IF bits >= 8
            THEN base64_loop(Tail(input), shifted % 2^(bits - 8), bits - 8,
                             Append(output, (shifted \div 2^(bits - 8)) % 256))
            ELSE base64_loop(Tail(input), shifted, bits, output)

\* base64_decode: input.trim_end_matches('='), then the loop; always Ok
base64_decode(input) ==
    LET kept == {i \in 1..Len(input) : input[i] # 61}
        end == IF kept = {} THEN 0 ELSE CHOOSE i \in kept : \A k \in kept : k <= i
    IN Ok(base64_loop(SubSeq(input, 1, end), 0, 0, <<>>))

\* String::from_utf8: the bytes are well-formed UTF-8
RECURSIVE utf8_valid(_)
utf8_valid(v) ==
    LET cont(i) == i <= Len(v) /\ v[i] \in 128..191
    IN IF v = <<>> THEN TRUE
       ELSE IF v[1] < 128 THEN utf8_valid(Tail(v))
       ELSE IF v[1] \in 194..223
            THEN cont(2) /\ utf8_valid(SubSeq(v, 3, Len(v)))
       ELSE IF v[1] \in 224..239
            THEN /\ cont(2) /\ cont(3)
                 /\ (v[1] = 224) => v[2] >= 160
                 /\ (v[1] = 237) => v[2] <= 159
                 /\ utf8_valid(SubSeq(v, 4, Len(v)))
       ELSE IF v[1] \in 240..244
            THEN /\ cont(2) /\ cont(3) /\ cont(4)
                 /\ (v[1] = 240) => v[2] >= 144
                 /\ (v[1] = 244) => v[2] <= 143
                 /\ utf8_valid(SubSeq(v, 5, Len(v)))
       ELSE FALSE

\* urlencoding::decode before its UTF-8 check: every %XY with two hex digits
\* becomes the byte XY, everything else is kept
RECURSIVE percent_decode(_)
percent_decode(str) ==
    LET hex(c) == IF c \in 48..57 THEN Some(c - 48)
                  ELSE IF c \in 65..70 THEN Some(c - 55)
                  ELSE IF c \in 97..102 THEN Some(c - 87)
                  ELSE None
    IN IF str = <<>> THEN <<>>
       ELSE IF /\ str[1] = 37 /\ Len(str) >= 3
               /\ hex(str[2]) # None /\ hex(str[3]) # None
            THEN <<16 * hex(str[2])[1] + hex(str[3])[1]>>
                 \o percent_decode(SubSeq(str, 4, Len(str)))
       ELSE <<str[1]>> \o percent_decode(Tail(str))

\* every url is taken for a Bing redirect
is_any_redirect(url) == TRUE

\* decode_search_url: url.contains("bing.com/ck/a")
is_bing_redirect(url) ==
    contains(url, <<98, 105, 110, 103, 46, 99, 111, 109, 47, 99, 107, 47, 97>>)

\* decode_search_url
decode_search_url(url) ==
    LET amp == <<38>>                           \* '&'
        u_sep == <<38, 117, 61>>                \* "&u="
        a1 == <<97, 49>>                        \* "a1"
        amp_url == <<38, 117, 114, 108, 61>>    \* "&url="
        q_url == <<63, 117, 114, 108, 61>>      \* "?url="
        google == <<103, 111, 111, 103, 108, 101, 46, 99, 111, 109, 47,
                    117, 114, 108>>             \* "google.com/url"
        u_pieces == split(url, u_sep)
        encoded == split(u_pieces[2], amp)[1]
        base64_part == IF Len(encoded) >= 2 /\ SubSeq(encoded, 1, 2) = a1
                       THEN SubSeq(encoded, 3, Len(encoded)) ELSE encoded
        decoded == base64_decode(base64_part)
        url_param == IF Len(split(url, amp_url)) >= 2
                     THEN Some(split(url, amp_url)[2])
                     ELSE IF Len(split(url, q_url)) >= 2
                          THEN Some(split(url, q_url)[2])
                     ELSE None
        escaped == split(url_param[1], amp)[1]
    IN IF /\ is_bing_redirect(url) /\ Len(u_pieces) >= 2
          /\ decoded.tag = "Ok" /\ utf8_valid(decoded.value)
       THEN decoded.value
       ELSE IF contains(url, google) /\ url_param # None
            THEN IF utf8_valid(percent_decode(escaped))
                 THEN percent_decode(escaped) ELSE escaped
       ELSE url

\* the characters of the destinations: h / ? > and e with an acute accent
DestChars == {<<104>>, <<47>>, <<63>>, <<62>>, <<195, 169>>}

\* the destinations of up to n characters
RECURSIVE Destinations(_)
Destinations(n) ==
    IF n = 0 THEN {<<>>}
    ELSE Destinations(n - 1)
         \cup {d \o c : d \in Destinations(n - 1), c \in DestChars}

\* the character of the base64 alphabet with index v
base64_char(v) ==
    IF v < 26 THEN 65 + v
    ELSE IF v < 52 THEN 97 + (v - 26)
    ELSE IF v < 62 THEN 48 + (v - 52)
    ELSE IF v = 62 THEN 43 ELSE 47

\* the base64 encoding of bytes (RFC 4648, with padding)
RECURSIVE base64_encode(_)
base64_encode(bytes) ==
    IF bytes = <<>> THEN <<>>
    ELSE IF Len(bytes) = 1
         THEN <<base64_char(bytes[1] \div 4), base64_char((bytes[1] % 4) * 16), 61, 61>>
    ELSE IF Len(bytes) = 2
         THEN <<base64_char(bytes[1] \div 4),
                base64_char((bytes[1] % 4) * 16 + bytes[2] \div 16),
                base64_char((bytes[2] % 16) * 4), 61>>
    ELSE <<base64_char(bytes[1] \div 4),
           base64_char((bytes[1] % 4) * 16 + bytes[2] \div 16),
           base64_char((bytes[2] % 16) * 4 + bytes[3] \div 64),
           base64_char(bytes[3] % 64)>>
         \o base64_encode(SubSeq(bytes, 4, Len(bytes)))

\* the link of a Bing result for the destination d:
\* https://www.bing.com/ck/a?!&&p=0&u=a1<base64 of d>&ntb=1
bing_wrapper(d) ==
    <<104, 116, 116, 112, 115, 58, 47, 47, 119, 119, 119, 46, 98, 105, 110,
      103, 46, 99, 111, 109, 47, 99, 107, 47, 97, 63, 33, 38, 38, 112, 61,
      48>>
    \o <<38, 117, 61>> \o <<97, 49>> \o base64_encode(d)
    \o <<38, 110, 116, 98, 61, 49>>

\* links given to decode_search_url: the Bing links of the destinations,
\* Google links, and urls that are no redirect (a plain url, a plain url
\* with escapes, a Bing url without u, a Google url without url, and plain
\* urls with a u and with a url parameter)
Links ==
    {bing_wrapper(d) : d \in Destinations(MaxDestLen)}
    \cup {\* https://www.google.com/url?q=x&url=https%3A%2F%2Fexample.test%2F&sa=U
          <<104, 116, 116, 112, 115, 58, 47, 47, 119, 119, 119, 46, 103, 111,
            111, 103, 108, 101, 46, 99, 111, 109, 47, 117, 114, 108, 63, 113,
            61, 120, 38, 117, 114, 108, 61, 104, 116, 116, 112, 115, 37, 51,
            65, 37, 50, 70, 37, 50, 70, 101, 120, 97, 109, 112, 108, 101, 46,
            116, 101, 115, 116, 37, 50, 70, 38, 115, 97, 61, 85>>,
          \* https://www.google.com/url?url=http://example.test/%zz
          <<104, 116, 116, 112, 115, 58, 47, 47, 119, 119, 119, 46, 103, 111,
            111, 103, 108, 101, 46, 99, 111, 109, 47, 117, 114, 108, 63, 117,
            114, 108, 61, 104, 116, 116, 112, 58, 47, 47, 101, 120, 97, 109,
            112, 108, 101, 46, 116, 101, 115, 116, 47, 37, 122, 122>>,
          \* http://example.test/
          <<104, 116, 116, 112, 58, 47, 47, 101, 120, 97, 109, 112, 108, 101,
            46, 116, 101, 115, 116, 47>>,
          \* http://example.test/a%2Fb
          <<104, 116, 116, 112, 58, 47, 47, 101, 120, 97, 109, 112, 108, 101,
            46, 116, 101, 115, 116, 47, 97, 37, 50, 70, 98>>,
          \* https://www.bing.com/ck/a?p=0
          <<104, 116, 116, 112, 115, 58, 47, 47, 119, 119, 119, 46, 98, 105,
            110, 103, 46, 99, 111, 109, 47, 99, 107, 47, 97, 63, 112, 61,
            48>>,
          \* https://www.google.com/url?q=x
          <<104, 116, 116, 112, 115, 58, 47, 47, 119, 119, 119, 46, 103, 111,
            111, 103, 108, 101, 46, 99, 111, 109, 47, 117, 114, 108, 63, 113,
            61, 120>>,
          \* http://example.test/?p=0&u=a1aA==
          <<104, 116, 116, 112, 58, 47, 47, 101, 120, 97, 109, 112, 108, 101,
            46, 116, 101, 115, 116, 47, 63, 112, 61, 48, 38, 117, 61, 97, 49,
            97, 65, 61, 61>>,
          \* http://example.test/?p=0&url=a%2Fb
          <<104, 116, 116, 112, 58, 47, 47, 101, 120, 97, 109, 112, 108, 101,
            46, 116, 101, 115, 116, 47, 63, 112, 61, 48, 38, 117, 114, 108,
            61, 97, 37, 50, 70, 98>>}

(***************************************************************************)
(* Content extraction (crawler.rs): the helper functions and the pass of   *)
(* extract_website_data over a page that was read. A text is a sequence of *)
(* characters; a URL or an attribute value is a sequence of words.         *)
(***************************************************************************)
MaxImgs == 21                 \* img elements of a document
MaxLinks == 51                \* a[href] elements of a document
ImageCap == 20                \* extract_images: .take(20)
LinkCap == 50                 \* extract_outbound_links: .take(50)
PhoneMinLen == 7              \* extract_phone_numbers: p.len() >= 7
MinSrcLen == 10               \* extract_images: src.len() < 10

Lower ==
    {"a", "b", "c", "d", "e", "f", "g", "h", "i", "j", "k", "l", "m", "n", "o",
     "p", "q", "r", "s", "t", "u", "v", "w", "x", "y", "z"}
Upper ==
    {"A", "B", "C", "D", "E", "F", "G", "H", "I", "J", "K", "L", "M", "N", "O",
     "P", "Q", "R", "S", "T", "U", "V", "W", "X", "Y", "Z"}
Digit == {"0", "1", "2", "3", "4", "5", "6", "7", "8", "9"}

\* U+2003 EM SPACE, a whitespace character of three bytes
EmSpace == "U+2003"

\* the class \s of a Unicode-aware regex, as far as the texts use it
Whitespace == {" ", EmSpace}

\* a regex item: between min and max characters of a class, as many as
\* possible first; max = -1 stands for no upper limit
Rep(min, max, class) == [class |-> class, min |-> min, max |-> max]

\* extract_emails: [a-zA-Z0-9._%+-]+@[a-zA-Z0-9.-]+\.[a-zA-Z]{2,}
email_regex ==
    <<Rep(1, -1, Lower \cup Upper \cup Digit \cup {".", "_", "%", "+", "-"}),
      Rep(1, 1, {"@"}),
      Rep(1, -1, Lower \cup Upper \cup Digit \cup {".", "-"}),
      Rep(1, 1, {"."}),
      Rep(2, -1, Lower \cup Upper)>>

\* extract_phone_numbers: [\+]?[(]?[0-9]{1,3}[)]?[-\s\.]?[(]?[0-9]{1,4}[)]?
\* [-\s\.]?[0-9]{1,4}[-\s\.]?[0-9]{1,9}
phone_regex ==
    <<Rep(0, 1, {"+"}), Rep(0, 1, {"("}), Rep(1, 3, Digit), Rep(0, 1, {")"}),
      Rep(0, 1, {"-", "."} \cup Whitespace), Rep(0, 1, {"("}),
      Rep(1, 4, Digit), Rep(0, 1, {")"}),
      Rep(0, 1, {"-", "."} \cup Whitespace), Rep(1, 4, Digit),
      Rep(0, 1, {"-", "."} \cup Whitespace), Rep(1, 9, Digit)>>

\* the number of characters of the class at pos, up to max of them
RECURSIVE run_len(_, _, _, _)
run_len(class, text, pos, max) ==
    IF max = 0 \/ pos > Len(text) THEN 0
    ELSE IF text[pos] \notin class THEN 0
    ELSE 1 + run_len(class, text, pos + 1, max - 1)

\* the match of the items k.. of a regex at pos: the position after the
\* match, or 0 when there is none. An item takes as many characters as it
\* can and gives them back one by one while the rest does not match.
RECURSIVE match_at(_, _, _, _)
RECURSIVE match_rep(_, _, _, _, _)
match_at(re, k, text, pos) ==
    IF k > Len(re) THEN pos
    ELSE match_rep(re, k, text, pos, run_len(re[k].class, text, pos, re[k].max))

match_rep(re, k, text, pos, n) ==
    IF n < re[k].min THEN 0
    ELSE LET end == match_at(re, k + 1, text, pos + n)
         IN IF end # 0 THEN end ELSE match_rep(re, k, text, pos, n - 1)

\* Regex::find_iter: the leftmost matches from pos on, none overlapping
RECURSIVE find_iter(_, _, _)
find_iter(re, text, pos) ==
    IF pos > Len(text) THEN <<>>
    ELSE LET end == match_at(re, 1, text, pos)
         IN IF end = 0 THEN find_iter(re, text, pos + 1)
            ELSE <<SubSeq(text, pos, end - 1)>> \o find_iter(re, text, end)

\* the distinct items of a sequence, each at its first place
firsts(seq) ==
    LET at == {i \in 1..Len(seq) : \A k \in 1..(i - 1) : seq[k] # seq[i]}
    IN [j \in 1..Cardinality(at) |->
           seq[CHOOSE i \in at : Cardinality({k \in at : k <= i}) = j]]

\* .collect::<HashSet<_>>().into_iter(): the vectors the iteration can
\* yield. The order of a HashSet is not defined; of the orders, the model
\* takes the rotations of the order of first occurrence.
collect_hash_set(seq) ==
    IF seq = <<>> THEN {<<>>}
    ELSE {[i \in 1..Len(firsts(seq)) |->
              firsts(seq)[((i + r - 1) % Len(firsts(seq))) + 1]] :
             r \in 0..(Len(firsts(seq)) - 1)}

\* Iterator::take
take(seq, n) == SubSeq(seq, 1, IF Len(seq) < n THEN Len(seq) ELSE n)

\* str::len of a text: its bytes in UTF-8
RECURSIVE text_len(_)
text_len(text) ==
    IF text = <<>> THEN 0
    ELSE (IF text[Len(text)] = EmSpace THEN 3 ELSE 1)
         + text_len(SubSeq(text, 1, Len(text) - 1))

\* str::len of a sequence of words
RECURSIVE str_len(_)
str_len(str) ==
    IF str = <<>> THEN 0
    ELSE Len(str[Len(str)][1]) + str_len(SubSeq(str, 1, Len(str) - 1))

\* the vectors extract_emails can return for a text
extract_emails(text) == collect_hash_set(find_iter(email_regex, text, 1))

\* the vectors extract_phone_numbers can return for a text
extract_phone_numbers(text) ==
    collect_hash_set(SelectSeq(find_iter(phone_regex, text, 1),
                               LAMBDA p : text_len(p) >= PhoneMinLen))

\* str::starts_with("http") of an attribute value
starts_with_http(str) ==
    str # <<>> /\ str[1] \in {Word("http://"), Word("https://")}

\* reqwest::Url::parse: Ok with the host in lower case for an absolute
\* http(s) URL, Err for a string without a scheme
Url_parse(str) ==
    IF Len(str) >= 2 /\ to_lowercase(<<str[1]>>)[1] \in {Word("http://"), Word("https://")}
    THEN Ok([host |-> to_lowercase(<<str[2]>>)])
    ELSE Err("RelativeUrlWithoutBase")

\* extract_website_data: base_domain, "" when final_url does not parse
base_domain(final_url) ==
    IF Url_parse(final_url).tag = "Ok" THEN Url_parse(final_url).value.host
    ELSE <<>>

\* extract_images: the img elements with a src or data-src that is neither
\* a tracking pixel nor shorter than 10 bytes, the first 20 of them
extract_images(document, base_url) ==
    LET src(el) == IF el.src # None THEN el.src[1] ELSE el.data_src[1]
        kept == SelectSeq(document.imgs, LAMBDA el :
                    /\ el.src # None \/ el.data_src # None
                    /\ ~contains(src(el), <<Word("1x1")>>)
                    /\ ~contains(src(el), <<Word("pixel")>>)
                    /\ str_len(src(el)) >= MinSrcLen)
    IN take([i \in 1..Len(kept) |->
                [src |-> IF starts_with_http(src(kept[i])) THEN src(kept[i])
                         ELSE base_url \o src(kept[i]),
                 alt |-> kept[i].alt]],
            ImageCap)

\* the vectors extract_outbound_links can return: the href values that
\* start with "http" and do not contain base_domain, without repetitions,
\* 50 of them
extract_outbound_links(document, domain) ==
    {take(v, LinkCap) :
        v \in collect_hash_set(SelectSeq(document.hrefs, LAMBDA href :
                 starts_with_http(href) /\ ~contains(href, domain)))}

\* extract_schema_org: the JSON-LD scripts serde_json can parse
extract_schema_org(document) ==
    SelectSeq(document.json_ld, LAMBDA script : script = "valid json")

\* the i-th of many img elements, and the i-th of many links to other hosts
Img(i) ==
    [src |-> Some(<<Word("https://"), Word("cdn.test"), Word("/photo.jpg")>>),
     data_src |-> None, alt |-> Some(i)]
Href(i) ==
    <<Word("https://"), Word("other.test"), Word("/page/"), Word(ToString(i))>>

\* a page of example.test: "contact a@b.com or a@b.com" in its HTML,
\* "tel +1(555)123-4567 12345 1 2 34" (the last with EM SPACEs) in its
\* article text, a lazily loaded image, a tracking pixel, an image with a
\* short src and one without any, a link to its own host, a relative link,
\* two equal links to another host and a link naming example.test in its
\* query
HomeDoc ==
    [final_url |-> <<Word("https://"), Word("example.test"), Word("/")>>,
     title |-> "Example",
     meta_description |-> Some("d"),
     html_text |-> <<"c", "o", "n", "t", "a", "c", "t", " ", "a", "@", "b", ".",
                     "c", "o", "m", " ", "o", "r", " ", "a", "@", "b", ".", "c",
                     "o", "m">>,
     article |-> <<"t", "e", "l", " ", "+", "1", "(", "5", "5", "5", ")", "1",
                   "2", "3", "-", "4", "5", "6", "7", " ", "1", "2", "3", "4",
                   "5", " ", "1", EmSpace, "2", EmSpace, "3", "4">>,
     body_text |-> <<"5", "5", "5", " ", "0", "1", "9", "9">>,
     json_ld |-> <<"valid json", "invalid json">>,
     imgs |-> <<[src |-> None, data_src |-> Some(<<Word("/lazy-photo.jpg")>>),
                 alt |-> None],
                [src |-> Some(<<Word("https://"), Word("t.test"), Word("/"),
                                Word("pixel"), Word(".gif")>>),
                 data_src |-> None, alt |-> None],
                [src |-> Some(<<Word("/a.png")>>), data_src |-> None,
                 alt |-> None],
                [src |-> None, data_src |-> None, alt |-> Some("logo")]>>,
     hrefs |-> <<<<Word("https://"), Word("example.test"), Word("/about")>>,
                 <<Word("/contact")>>,
                 <<Word("https://"), Word("other.test"), Word("/")>>,
                 <<Word("https://"), Word("other.test"), Word("/")>>,
                 <<Word("https://"), Word("share.test"), Word("/?u="),
                   Word("example.test")>>>>]

\* the same page with one more link to its own host, the host written
\* "Example.test"
MixedCaseDoc ==
    [HomeDoc EXCEPT !.hrefs = Append(@, <<Word("https://"),
                                          Capital("example.test"),
                                          Word("/about")>>)]

\* a page with many images and many links to other hosts, without text
GalleryDoc ==
    [final_url |-> <<Word("https://"), Word("example.test"), Word("/gallery")>>,
     title |-> "Gallery", meta_description |-> None,
     html_text |-> <<>>, article |-> <<>>, body_text |-> <<>>,
     json_ld |-> <<>>,
     imgs |-> [i \in 1..MaxImgs |-> Img(i)],
     hrefs |-> [i \in 1..MaxLinks |-> Href(i)]]

\* a page whose tab reports a URL without a scheme
NoUrlDoc ==
    [GalleryDoc EXCEPT !.final_url = <<>>, !.imgs = <<>>, !.hrefs = <<>>]

\* the documents a page can be parsed into
Docs == {HomeDoc, MixedCaseDoc, GalleryDoc, NoUrlDoc}

\* the frame of the pass before any page was read
IdleSite == [doc |-> None, at |-> 0, failed |-> {}, ret |-> None]

\* extract_website_data from `let final_url = tab.get_url()` to the Ok: the
\* steps in program order. The body text is read only when Readability
\* returned Err.
extraction_steps ==
    <<Infallible("get_url"), Infallible("Html::parse_document"),
      Tolerated("Url::parse base_domain"), Try("evaluate document.title"),
      Infallible("select meta"), Try("Url::parse final_url"),
      Tolerated("readability::extractor::extract"),
      Tolerated("evaluate document.body.innerText"),
      Infallible("extract_schema_org"), Infallible("extract_open_graph"),
      Infallible("extract_emails"), Infallible("extract_phone_numbers"),
      Infallible("extract_images"), Infallible("extract_outbound_links")>>

\* the step after the step at `at`
next_step(at, failed) ==
    IF /\ at < Len(extraction_steps)
       /\ extraction_steps[at + 1].op = "evaluate document.body.innerText"
       /\ "readability::extractor::extract" \notin failed
    THEN at + 2
    ELSE at + 1

\* extract_website_data: main_text
main_text(doc, failed) ==
    IF "readability::extractor::extract" \notin failed THEN doc.article
    ELSE IF "evaluate document.body.innerText" \notin failed THEN doc.body_text
    ELSE <<>>

\* the WebsiteData values the pass can return for a document
WebsiteData(doc, failed) ==
    {[final_url |-> doc.final_url, title |-> doc.title,
      meta_description |-> doc.meta_description,
      main_text |-> main_text(doc, failed),
      schema_org |-> extract_schema_org(doc),
      emails |-> emails, phone_numbers |-> phone_numbers,
      images |-> extract_images(doc, <<Word("https://")>>
                                     \o base_domain(doc.final_url)),
      outbound_links |-> outbound_links] :
        emails \in extract_emails(doc.html_text),
        phone_numbers \in extract_phone_numbers(main_text(doc, failed)),
        outbound_links \in extract_outbound_links(doc, base_domain(doc.final_url))}

(***************************************************************************)
(* The wait for the results page to settle (crawler.rs): the promise of    *)
(* wait_script in search_google_attempt and the sleep of search_bing, on a *)
(* clock of whole seconds.                                                 *)
(***************************************************************************)
InitSecs == 3                 \* search_google_attempt: sleep before wait_script
DebounceSecs == 1             \* wait_script: setTimeout(..., 1000) per mutation
CeilingSecs == 12             \* wait_script: setTimeout(..., 12000)
BingSettleSecs == 3           \* search_bing: sleep(Duration::from_secs(3))

\* the timer that ends the wait whatever the page does
settle_timeout(fn) ==
    IF fn = "search_google_attempt" THEN CeilingSecs ELSE BingSettleSecs

\* the frame before any wait was started: the clock, the last change of the
\* DOM, the last change the observer saw, and the two timers
IdleSettle ==
    [fn |-> "none", now |-> 0, started |-> None, observing |-> FALSE,
     mutated |-> None, last_observed |-> None, debounce |-> None,
     timeout |-> None, resolved |-> None]

(***************************************************************************)
(* search_google_attempt: the extraction of the results (crawler.rs        *)
(* 957-1068).                                                              *)
(***************************************************************************)
\* what the extraction scripts see of a results page: the element
\* mainContent is taken from, the candidate result blocks inside it, the
\* blocks among them that lack a title or a link, an h3 inside
\* [role="main"], an inline script with a data blob, and the length of
\* window.google.search.cse.results[0].results
GooglePages ==
    {p \in [main : {"none", "[role=main]", "#main"},
            blocks : {0, 1, MaxBlocks},
            bare : {{}, {1}},
            h3 : BOOLEAN,
            script : BOOLEAN,
            cse : {0, 1, MaxBlocks}] :
        /\ p.main = "none" => p.blocks = 0
        /\ p.main # "[role=main]" => ~p.h3
        /\ p.bare \subseteq 1..p.blocks}

\* crawler.rs SearchResult made of an entry of the script-context global
CseResult(i) ==
    [title |-> <<"cse title", i>>, link |-> <<"cse url", i>>,
     snippet |-> <<"cse content", i>>]

\* Array.prototype.slice(0, n)
js_slice(seq, n) == SubSeq(seq, 1, IF Len(seq) < n THEN Len(seq) ELSE n)

\* the blocks with a title element and a link element, in document order
complete_blocks(page) ==
    SelectSeq([i \in 1..page.blocks |-> i], LAMBDA i : i \notin page.bare)

\* dom_extract_script with the script scan made before the blocks are
\* looked at
dom_extract_script_scan_first(page) ==
    IF page.main = "none"
    THEN [method |-> "dom", results |-> <<>>, steps |-> <<"mainContent">>]
    ELSE IF page.script
    THEN [method |-> "script_fallback", results |-> <<>>,
          steps |-> <<"mainContent", "scan scripts">>]
    ELSE [method |-> "dom",
          results |-> js_slice([i \in 1..Len(complete_blocks(page)) |->
                                   SearchResult(complete_blocks(page)[i])], ResultCap),
          steps |-> <<"mainContent", "scan scripts", "resultBlocks">>]

\* dom_extract_script: the object it returns as JSON, and what it looked
\* at on the way
dom_extract_script(page) ==
    IF page.main = "none"
    THEN [method |-> "dom", results |-> <<>>, steps |-> <<"mainContent">>]
    ELSE IF page.blocks = 0 /\ ~page.h3
    THEN IF page.script
         THEN [method |-> "script_fallback", results |-> <<>>,
               steps |-> <<"mainContent", "resultBlocks", "scan scripts">>]
         ELSE [method |-> "dom", results |-> <<>>,
               steps |-> <<"mainContent", "resultBlocks", "scan scripts">>]
    ELSE [method |-> "dom",
          results |-> js_slice([i \in 1..Len(complete_blocks(page)) |->
                                   SearchResult(complete_blocks(page)[i])], ResultCap),
          steps |-> <<"mainContent", "resultBlocks">>]

\* js_extract_script: the object it returns as JSON
js_extract_script(page) ==
    [method |-> "js_context",
     results |-> js_slice([i \in 1..page.cse |-> CseResult(i)], ResultCap),
     steps |-> <<"window.google">>]

\* what tab.evaluate(script, true) can return: Ok with a string value, Ok
\* with another value or none, Err
EvaluateOutcomes == {"Ok string", "Ok other", "Err"}

\* the frame of the extraction before it was started
IdleChain ==
    [page |-> None, at |-> "idle", evaluated |-> <<>>, outcomes |-> <<>>,
     steps |-> <<>>, extraction_method |-> "none", results |-> <<>>]

(***************************************************************************)
(* Startup: main() up to the spawn of the worker and the scheduler         *)
(* (main.rs 63-109) and the bucket loop of StorageManager::new             *)
(* (storage.rs 40-77).                                                     *)
(***************************************************************************)
MaxCreateErrs == 30           \* failed create_bucket calls in one startup
DbAttempts == 15              \* main: if attempts >= 15
BucketAttempts == 30          \* StorageManager::new: if attempts >= 30

\* a run of main() at its first line: where it is, the `attempts` of the
\* two loops, the iterations of the bucket loop that did not end it, the
\* stores that were initialised, the tasks that were spawned
IdleBoot ==
    [pc |-> "connect", db_attempts |-> 0, attempts |-> 0, failed |-> 0,
     create_errs |-> 0, initialised |-> {}, spawned |-> {}, ret |-> None]

(***************************************************************************)
(* Initial state: main() has connected the stores and spawned the worker   *)
(* and the scheduler. Deployed(n) is the state with n worker instances on  *)
(* the same queue and stores; main() starts one.                           *)
(***************************************************************************)
Deployed(n) ==
    /\ workers = 1..n
    /\ queue = <<>>
    /\ pc = [w \in workers |-> "pop"]
    /\ job = [w \in workers |-> None]
    /\ serp = [w \in workers |-> None]
    /\ first = [w \in workers |-> None]
    /\ upload = [w \in workers |-> None]
    /\ db = <<>>
    /\ blobs = <<>>
    /\ apiTasks = <<>>
    /\ acks = <<>>
    /\ files = {}
    /\ uuids = 0
    /\ pushed = <<>>
    /\ popped = <<>>
    /\ stepLog = [w \in workers |-> <<>>]
    /\ searched = {}
    /\ workerLog = <<>>
    /\ call = IdleCall
    /\ tab = IdleTab
    /\ pool = EmptyPool
    /\ redirect = None
    /\ site = IdleSite
    /\ settle = IdleSettle
    /\ chain = IdleChain
    /\ boot = IdleBoot

Init == Deployed(1)

workerVars == <<pc, job, serp, first, upload, stepLog>>
storeVars == <<db, blobs>>
apiVars == <<apiTasks, acks, files>>

(***************************************************************************)
(* Producers: QueueManager::push_job and its callers.                      *)
(***************************************************************************)
\* queue.rs push_job, Ok path: serialise and LPUSH
push_job(j) ==
    /\ queue' = LPush(queue, to_string(j))
    /\ pushed' = Append(pushed, j)

\* a producer calls push_job with a job of its own
PushJob ==
    /\ Len(pushed) < MaxPushes
    /\ \E j \in ExtJobs : push_job(j)
    /\ UNCHANGED <<workers, call, tab, pool, redirect, unitVars, workerVars, storeVars, apiVars, uuids, popped,
                   searched, workerLog>>

\* a trigger that waits until no worker is processing a job
SchedulerFireWhenIdle ==
    /\ \A w \in workers : pc[w] \in {"pop", "sleep_1s", "sleep_5s"}
    /\ Len(pushed) < MaxPushes
    /\ uuids' = uuids + 1
    /\ push_job(DailyJob(Uuid(uuids + 1)))
    /\ UNCHANGED <<workers, call, tab, pool, redirect, unitVars, workerVars, storeVars, apiVars, popped,
                   searched, workerLog>>

\* the trigger gives every daily job the id of the first
SchedulerFireSameId ==
    /\ Len(pushed) < MaxPushes
    /\ uuids' = uuids + 1
    /\ push_job(DailyJob(Uuid(1)))
    /\ UNCHANGED <<workers, call, tab, pool, redirect, unitVars, workerVars, storeVars, apiVars, popped,
                   searched, workerLog>>

\* scheduler.rs: the daily trigger fires and the push succeeds
SchedulerFire ==
    /\ Len(pushed) < MaxPushes
    /\ uuids' = uuids + 1
    /\ push_job(DailyJob(Uuid(uuids + 1)))
    /\ UNCHANGED <<workers, call, tab, pool, redirect, unitVars, workerVars, storeVars, apiVars, popped,
                   searched, workerLog>>

\* scheduler.rs: the daily trigger fires and push_job returns Err
\* (connection or LPUSH failure); the error is printed, the job and its id
\* are dropped
SchedulerFireErr ==
    /\ Len(pushed) < MaxPushes
    /\ UNCHANGED vars

(***************************************************************************)
(* Worker: start_worker and process_job, one action per await point.       *)
(***************************************************************************)
\* deep extraction attempted whether or not there is a first result
AfterSearchAlways(sd) == "extract"

\* worker.rs: where process_job goes after a search that returned Ok
AfterSearch(sd) == IF Len(sd.results) > 0 THEN "extract" ELSE "store"

\* a retry: the failed job is pushed back
QueueAfterFailureRequeue(q, j) == LPush(q, to_string(j))

\* worker.rs: the queue after process_job returned Err for job j
\* (the error is printed; there is no dead-letter queue and no retry)
QueueAfterFailure(q, j) == q

\* the worker leaves process_job and loops back to pop_job
Finish(w, line) ==
    /\ pc' = [pc EXCEPT ![w] = "pop"]
    /\ job' = [job EXCEPT ![w] = None]
    /\ serp' = [serp EXCEPT ![w] = None]
    /\ first' = [first EXCEPT ![w] = None]
    /\ upload' = [upload EXCEPT ![w] = None]
    /\ stepLog' = [stepLog EXCEPT ![w] = <<>>]
    /\ workerLog' = Append(workerLog, line)

\* pop_job returns Ok(Some(job)): RPOP removed the tail and it parsed
WorkerPopJob(w) ==
    /\ pc[w] = "pop"
    /\ RPopReply(queue) # None
    /\ queue' = RPopRest(queue)
    /\ job' = [job EXCEPT ![w] = Some(from_str(RPopReply(queue)[1]))]
    /\ popped' = Append(popped, from_str(RPopReply(queue)[1]))
    /\ pc' = [pc EXCEPT ![w] = "search"]
    /\ UNCHANGED <<workers, call, tab, pool, redirect, unitVars, upload, serp, first, stepLog, storeVars, apiVars, uuids,
                   pushed, searched, workerLog>>

\* pop_job returns Ok(None): the worker sleeps 1000 ms
WorkerPopEmpty(w) ==
    /\ pc[w] = "pop"
    /\ RPopReply(queue) = None
    /\ queue' = RPopRest(queue)
    /\ pc' = [pc EXCEPT ![w] = "sleep_1s"]
    /\ UNCHANGED <<workers, call, tab, pool, redirect, unitVars, upload, job, serp, first, stepLog, storeVars, apiVars,
                   uuids, pushed, popped, searched, workerLog>>

\* the failing pop has taken the tail of the queue with it
WorkerPopErrLossy(w) ==
    /\ pc[w] = "pop"
    /\ pc' = [pc EXCEPT ![w] = "sleep_5s"]
    /\ queue' = RPopRest(queue)
    /\ UNCHANGED <<workers, call, tab, pool, redirect, unitVars, upload, job, serp, first, stepLog, storeVars,
                   apiVars, uuids, pushed, popped, searched, workerLog>>

\* pop_job returns Err: no connection, or RPOP answered with an error; the
\* worker prints it and sleeps 5 s. (The third `?` of pop_job, a value that
\* does not parse as a CrawlJob, cannot fire: the list holds only what
\* push_job serialised.)
WorkerPopErr(w) ==
    /\ pc[w] = "pop"
    /\ pc' = [pc EXCEPT ![w] = "sleep_5s"]
    /\ UNCHANGED <<workers, call, tab, pool, redirect, unitVars, upload, queue, job, serp, first, stepLog, storeVars,
                   apiVars, uuids, pushed, popped, searched, workerLog>>

\* the sleep ends and the loop starts over
WorkerWake(w) ==
    /\ pc[w] \in {"sleep_1s", "sleep_5s"}
    /\ pc' = [pc EXCEPT ![w] = "pop"]
    /\ UNCHANGED <<workers, call, tab, pool, redirect, unitVars, upload, queue, job, serp, first, stepLog, storeVars,
                   apiVars, uuids, pushed, popped, searched, workerLog>>

\* process_job step 1: the search returned Ok(data)
ProcSearchOk(w) ==
    /\ pc[w] = "search"
    /\ \E sd \in SearchOk(SearchFn(job[w][1].engine), job[w][1].keyword) :
          /\ serp' = [serp EXCEPT ![w] = Some(sd)]
          /\ pc' = [pc EXCEPT ![w] = AfterSearch(sd)]
    /\ stepLog' = [stepLog EXCEPT ![w] = Append(@, SearchFn(job[w][1].engine))]
    /\ searched' = searched \cup {job[w][1].id}
    /\ UNCHANGED <<workers, call, tab, pool, redirect, unitVars, upload, queue, job, first, storeVars, apiVars, uuids,
                   pushed, popped, workerLog>>

\* the error is swallowed: nothing is printed for the failed job
ProcSearchErrSilent(w) ==
    /\ pc[w] = "search"
    /\ pc' = [pc EXCEPT ![w] = "pop"]
    /\ job' = [job EXCEPT ![w] = None]
    /\ UNCHANGED <<workers, call, tab, pool, redirect, unitVars, upload, queue, serp, first, stepLog, storeVars, apiVars,
                   uuids, pushed, popped, searched, workerLog>>

\* the failure is recorded in the tasks table before it is returned
ProcSearchErrRecorded(w) ==
    /\ pc[w] = "search"
    /\ Finish(w, [job |-> job[w][1], result |-> "failed", error |-> "search"])
    /\ queue' = QueueAfterFailure(queue, job[w][1])
    /\ db' = IF job[w][1].id \in DOMAIN db THEN db
             ELSE Insert(db, [id |-> job[w][1].id, status |-> "failed"])
    /\ UNCHANGED <<workers, call, tab, pool, redirect, unitVars, blobs, apiVars, uuids, pushed, popped,
                   searched>>

\* process_job step 1: the search returned Err; process_job returns it and
\* start_worker prints "Job failed"
ProcSearchErr(w) ==
    /\ pc[w] = "search"
    /\ Finish(w, [job |-> job[w][1], result |-> "failed", error |-> "search"])
    /\ queue' = QueueAfterFailure(queue, job[w][1])
    /\ UNCHANGED <<workers, call, tab, pool, redirect, unitVars, storeVars, apiVars, uuids, pushed, popped,
                   searched>>

\* the error of extract_website_data is returned with `?`: the job fails
ProcExtractStrict(w) ==
    /\ pc[w] = "extract"
    /\ \E frd \in {None} \cup {Some(d) : d \in WebsiteDatas} :
          IF frd = None
          THEN /\ Finish(w, [job |-> job[w][1], result |-> "failed", error |-> "extract"])
               /\ queue' = QueueAfterFailure(queue, job[w][1])
          ELSE /\ first' = [first EXCEPT ![w] = frd]
               /\ pc' = [pc EXCEPT ![w] = "store"]
               /\ stepLog' = [stepLog EXCEPT ![w] = Append(@, "extract_website_data")]
               /\ UNCHANGED <<upload, queue, job, serp, workerLog>>
    /\ UNCHANGED <<workers, call, tab, pool, redirect, unitVars, storeVars, apiVars, uuids,
                   pushed, popped, searched>>

\* process_job step 2: extract_website_data(first.link).await.ok()
ProcExtract(w) ==
    /\ pc[w] = "extract"
    /\ \E frd \in {None} \cup {Some(d) : d \in WebsiteDatas} :
          first' = [first EXCEPT ![w] = frd]
    /\ pc' = [pc EXCEPT ![w] = "store"]
    /\ stepLog' = [stepLog EXCEPT ![w] = Append(@, "extract_website_data")]
    /\ UNCHANGED <<workers, call, tab, pool, redirect, unitVars, upload, queue, job, serp, storeVars, apiVars, uuids,
                   pushed, popped, searched, workerLog>>

\* the raw HTML is stored whenever deep extraction returned data
HasHtmlAny(frd) == frd # None

\* worker.rs: `if let Some(ref data) = first_result_data` and
\* `if !data.html.is_empty()`
HasHtml(frd) == frd # None /\ frd[1].html # ""

\* worker.rs: the store_html call as process_job sees it: its arguments, its
\* result and the line printed for it
StoreCall(key, content, ok) ==
    [key |-> key, content |-> content,
     result |-> IF ok THEN "Ok" ELSE "Err",
     printed |-> IF ok THEN "HTML saved to MinIO" ELSE "MinIO upload failed"]

\* process_job step 3: store_html is called when deep extraction returned
\* non-empty HTML; a failed upload is only printed
ProcStore(w) ==
    /\ pc[w] = "store"
    /\ IF HasHtml(first[w])
       THEN \E ok \in BOOLEAN :
               /\ upload' = [upload EXCEPT ![w] =
                                Some(StoreCall(s3_key(job[w][1]), first[w][1].html, ok))]
               /\ blobs' = IF ok THEN Put(blobs, s3_key(job[w][1]), first[w][1].html)
                           ELSE blobs
       ELSE UNCHANGED <<upload, blobs>>
    /\ pc' = [pc EXCEPT ![w] = "insert"]
    /\ stepLog' = [stepLog EXCEPT ![w] = Append(@, "store")]
    /\ UNCHANGED <<workers, call, tab, pool, redirect, unitVars, queue, job, serp, first, db, apiVars, uuids,
                   pushed, popped, searched, workerLog>>

\* process_job step 4: the INSERT succeeded, the job is completed
ProcInsertOk(w) ==
    /\ pc[w] = "insert"
    /\ LET row == TaskRow(job[w][1].id, job[w][1].keyword, job[w][1].engine,
                          serp[w][1], first[w])
       IN /\ InsertOk(db, row)
          /\ db' = Insert(db, row)
    /\ Finish(w, [job |-> job[w][1], result |-> "completed", error |-> "none"])
    /\ UNCHANGED <<workers, call, tab, pool, redirect, unitVars, queue, blobs, apiVars, uuids, pushed, popped,
                   searched>>

\* process_job step 4: the INSERT hit the primary key of an existing row;
\* `?` returns the error and the job is failed
ProcInsertDup(w) ==
    /\ pc[w] = "insert"
    /\ ~InsertOk(db, TaskRow(job[w][1].id, job[w][1].keyword, job[w][1].engine,
                             serp[w][1], first[w]))
    /\ Finish(w, [job |-> job[w][1], result |-> "failed", error |-> "duplicate_key"])
    /\ queue' = QueueAfterFailure(queue, job[w][1])
    /\ UNCHANGED <<workers, call, tab, pool, redirect, unitVars, storeVars, apiVars, uuids, pushed, popped,
                   searched>>

\* a rollback: the blob of the job is deleted when its record cannot be written
ProcInsertErrRollback(w) ==
    /\ pc[w] = "insert"
    /\ Finish(w, [job |-> job[w][1], result |-> "failed", error |-> "database"])
    /\ queue' = QueueAfterFailure(queue, job[w][1])
    /\ blobs' = [k \in DOMAIN blobs \ {s3_key(job[w][1])} |-> blobs[k]]
    /\ UNCHANGED <<workers, call, tab, pool, redirect, unitVars, db, apiVars, uuids, pushed, popped, searched>>

\* process_job step 4: the database could not execute the INSERT;
\* `?` returns the error and the job is failed
ProcInsertErr(w) ==
    /\ pc[w] = "insert"
    /\ Finish(w, [job |-> job[w][1], result |-> "failed", error |-> "database"])
    /\ queue' = QueueAfterFailure(queue, job[w][1])
    /\ UNCHANGED <<workers, call, tab, pool, redirect, unitVars, storeVars, apiVars, uuids, pushed, popped,
                   searched>>

\* the worker process dies in the middle of a job and is started again:
\* its local state is gone, Redis, Postgres and MinIO keep theirs
Crash(w) ==
    /\ pc[w] \notin {"pop", "sleep_1s", "sleep_5s"}
    /\ pc' = [pc EXCEPT ![w] = "pop"]
    /\ job' = [job EXCEPT ![w] = None]
    /\ serp' = [serp EXCEPT ![w] = None]
    /\ first' = [first EXCEPT ![w] = None]
    /\ upload' = [upload EXCEPT ![w] = None]
    /\ stepLog' = [stepLog EXCEPT ![w] = <<>>]
    /\ UNCHANGED <<workers, call, tab, pool, redirect, unitVars, queue, storeVars, apiVars, uuids, pushed, popped,
                   searched, workerLog>>

(***************************************************************************)
(* Request handler: trigger_crawl and the task it spawns.                  *)
(***************************************************************************)
\* api.rs: request bodies of POST /crawl
CrawlRequests ==
    {[keyword |-> "kw", engine |-> None],
     [keyword |-> "kw", engine |-> Some("google")]}

\* api.rs: payload.engine.unwrap_or_else(|| "bing")
EngineOf(payload) == IF payload.engine = None THEN "bing" ELSE payload.engine[1]

\* the spawned task draws an id of its own
task_id_fresh(task_id) == task_id + 1000

\* api.rs: task_id_clone, the id the spawned task persists under
task_id_clone(task_id) == task_id

\* api.rs: the files of "Save to Disk": the JSON always, the HTML when the
\* extracted HTML is not empty
DiskFiles(id, frd) ==
    {<<"json", id>>}
    \cup (IF frd # None /\ frd[1].html # "" THEN {<<"html", id>>} ELSE {})

SetTask(id, t) ==
    [i \in DOMAIN apiTasks \cup {id} |-> IF i = id THEN t ELSE apiTasks[i]]

DropTask(id) == [i \in DOMAIN apiTasks \ {id} |-> apiTasks[i]]

\* trigger_crawl: generate the id, spawn the crawl, answer with the id
TriggerCrawl ==
    /\ Len(acks) < MaxSubmits
    /\ uuids' = uuids + 1
    /\ \E payload \in CrawlRequests :
          LET task_id == Uuid(uuids + 1)
          IN /\ apiTasks' = SetTask(task_id_clone(task_id),
                                    [pc |-> "search", keyword |-> payload.keyword,
                                     engine |-> EngineOf(payload),
                                     serp |-> None, first |-> None])
             /\ acks' = Append(acks, [task_id |-> task_id,
                                      message |-> "Crawl started"])
    /\ UNCHANGED <<workers, call, tab, pool, redirect, unitVars, queue, workerVars, storeVars, files, pushed,
                   popped, searched, workerLog>>

\* spawned task: the search returned Ok; without a first result the task
\* runs on to the disk save and stops at the INSERT
ApiSearchOk(id) ==
    /\ id \in DOMAIN apiTasks
    /\ apiTasks[id].pc = "search"
    /\ \E sd \in SearchOk(ApiSearchFn(apiTasks[id].engine), apiTasks[id].keyword) :
          IF Len(sd.results) > 0
          THEN /\ apiTasks' = SetTask(id, [apiTasks[id] EXCEPT
                                              !.pc = "extract", !.serp = Some(sd)])
               /\ UNCHANGED files
          ELSE /\ apiTasks' = SetTask(id, [apiTasks[id] EXCEPT
                                              !.pc = "insert", !.serp = Some(sd)])
               /\ files' = files \cup DiskFiles(id, None)
    /\ searched' = searched \cup {id}
    /\ UNCHANGED <<workers, call, tab, pool, redirect, unitVars, queue, workerVars, storeVars, acks, uuids, pushed,
                   popped, workerLog>>

\* spawned task: the search returned Err; it is printed and written to
\* crawl_errors.log, nothing else happens
ApiSearchErr(id) ==
    /\ id \in DOMAIN apiTasks
    /\ apiTasks[id].pc = "search"
    /\ apiTasks' = DropTask(id)
    /\ files' = files \cup {<<"crawl_errors.log", 0>>}
    /\ UNCHANGED <<workers, call, tab, pool, redirect, unitVars, queue, workerVars, storeVars, acks, uuids, pushed,
                   popped, searched, workerLog>>

\* spawned task: deep extraction of the first result, then the disk save
ApiExtract(id) ==
    /\ id \in DOMAIN apiTasks
    /\ apiTasks[id].pc = "extract"
    /\ \E frd \in {None} \cup {Some(d) : d \in WebsiteDatas} :
          /\ apiTasks' = SetTask(id, [apiTasks[id] EXCEPT
                                         !.pc = "insert", !.first = frd])
          /\ files' = files \cup DiskFiles(id, frd)
    /\ UNCHANGED <<workers, call, tab, pool, redirect, unitVars, queue, workerVars, storeVars, acks, uuids, pushed,
                   popped, searched, workerLog>>

\* spawned task: the INSERT; its result is discarded (let _ =)
ApiInsert(id) ==
    /\ id \in DOMAIN apiTasks
    /\ apiTasks[id].pc = "insert"
    /\ LET t == apiTasks[id]
           row == TaskRow(id, t.keyword, t.engine, t.serp[1], t.first)
       IN \/ /\ InsertOk(db, row)
             /\ db' = Insert(db, row)
          \/ UNCHANGED db
    /\ apiTasks' = DropTask(id)
    /\ UNCHANGED <<workers, call, tab, pool, redirect, unitVars, queue, workerVars, blobs, acks, files, uuids,
                   pushed, popped, searched, workerLog>>

\* api.rs get_crawl_status: SELECT ... FROM tasks WHERE id = $1
get_crawl_status(task_id) ==
    IF task_id \in DOMAIN db THEN Some(db[task_id]) ELSE None

(***************************************************************************)
(* Search automation: one call of search_google, search_bing or            *)
(* generic_crawl, from the dispatch in process_job to its match on the     *)
(* returned Result.                                                        *)
(***************************************************************************)
orchVars == <<workers, queue, workerVars, storeVars, apiVars, uuids, pushed,
              popped, searched, workerLog>>

\* jobs whose search the worker dispatches: those of the producers, and
\* generic jobs without a selector map and with a map of two fields, one of
\* them not a selector
SearchJobs ==
    ExtJobs
    \cup {DailyJob(Uuid(1)),
          CrawlJob(3, "http://example.test", "generic", None),
          CrawlJob(4, "http://example.test", "generic",
                   Some([title |-> "h1", price |-> "h1["]))}

\* JavaScript Array.prototype.slice(0, n)
slice(seq, n) == SubSeq(seq, 1, IF Len(seq) < n THEN Len(seq) ELSE n)

\* search_google_attempt: the ways the results are obtained
ExtractionMethods == {"dom", "js_context", "script_fallback", "fallback"}

\* search_google_attempt: the results of an extraction method on a page
GoogleResults(method, page) ==
    IF method \in {"dom", "js_context"} THEN slice(page.blocks, ResultCap)
    ELSE <<>>

\* search_bing: every li.b_algo with a title and a link is pushed
BingResults(page) == page.blocks

\* scraper Selector::parse: the selectors that parse (a tag name)
Selector_parse(selector_str) ==
    IF selector_str \in {"title", "h1", "p"} THEN Some(selector_str) ELSE None

\* only the first matching element is taken
select_first(dom, selector) ==
    SubSeq(SelectSeq(dom, LAMBDA e : e.tag = selector), 1,
           IF SelectSeq(dom, LAMBDA e : e.tag = selector) = <<>> THEN 0 ELSE 1)

\* scraper document.select(&selector): the matching elements in document order
select(dom, selector) == SelectSeq(dom, LAMBDA e : e.tag = selector)

\* generic_crawl: what one (key, selector_str) of the map appends to
\* snippet_acc; a string is the sequence of the pieces pushed to it
field_snippet(key, selector_str, dom) ==
    IF Selector_parse(selector_str) = None THEN <<>>
    ELSE LET found == select(dom, Selector_parse(selector_str)[1])
         IN <<"--- ", key, " ---\n">>
            \o [i \in 1..(2 * Len(found)) |->
                   IF i % 2 = 1 THEN found[(i + 1) \div 2].text ELSE "\n"]

\* generic_crawl: snippet_acc after the loop over the map in the order keys
RECURSIVE map_snippet(_, _, _)
map_snippet(keys, sel_map, dom) ==
    IF keys = <<>> THEN <<>>
    ELSE field_snippet(keys[1], sel_map[keys[1]], dom)
         \o map_snippet(Tail(keys), sel_map, dom)

\* generic_crawl: snippet_acc without a map: "Default: Extract Title + H1"
title_snippet(dom) ==
    <<"No selectors provided. Dumping title.\n">>
    \o (IF select(dom, "title") = <<>> THEN <<>> ELSE <<select(dom, "title")[1].text>>)

\* the orders in which a HashMap with these keys can be iterated
IterationOrders(keys) ==
    {order \in [1..Cardinality(keys) -> keys] :
        \A i, k \in 1..Cardinality(keys) : order[i] = order[k] => i = k}

\* generic_crawl: the one result pushed, for the target url
GenericResults(url, snippet_acc) ==
    <<[title |-> "Forum Data", link |-> url, snippet |-> snippet_acc]>>

\* a fourth attempt is made after the third
ShouldRetryOnceMore(attempt) == attempt <= MaxAttempts

\* search_google: `if attempt < 3`
ShouldRetry(attempt) == attempt < MaxAttempts

\* search_google: wait_time after an attempt that returned no results
wait_time(attempt) == 5 * attempt

\* search_google: the sleep after an attempt that returned Err
wait_after_error(attempt) == 5

\* search_google: the Err after the loop
GoogleFailed(last_error) ==
    Err(<<"Google search failed after 3 attempts. Last error: ", last_error>>)

\* process_job: the dispatch on job.engine; the function is entered
SearchCall ==
    /\ call.pc \in {"idle", "matched"}
    /\ \E j \in SearchJobs :
          call' = [IdleCall EXCEPT !.pc = "attempt", !.fn = SearchFn(j.engine),
                                   !.keyword = j.keyword,
                                   !.selectors = j.selectors, !.attempt = 1,
                                   !.last_error = "No results found"]
    /\ UNCHANGED <<orchVars, tab, pool, redirect, unitVars>>

\* search_google: the attempt returned Ok with results; they are returned
GoogleAttemptSuccess ==
    /\ call.pc = "attempt" /\ call.fn = "search_google"
    /\ \E page \in Pages, method \in ExtractionMethods :
          /\ GoogleResults(method, page) # <<>>
          /\ call' = [call EXCEPT !.launches = @ + 1, !.page = Some(page),
                                  !.method = method, !.pc = "returned",
                                  !.ret = Some(Ok([results |-> GoogleResults(method, page)]))]
    /\ UNCHANGED <<orchVars, tab, pool, redirect, unitVars>>

\* search_google: the attempt returned Ok without results
GoogleAttemptEmpty ==
    /\ call.pc = "attempt" /\ call.fn = "search_google"
    /\ \E page \in Pages, method \in ExtractionMethods :
          /\ GoogleResults(method, page) = <<>>
          /\ call' = IF ShouldRetry(call.attempt)
                     THEN [call EXCEPT !.launches = @ + 1, !.page = Some(page),
                                       !.method = method,
                                       !.debug = @ \cup {"debug_google_tier1.html"},
                                       !.waits = Append(@, wait_time(call.attempt)),
                                       !.attempt = @ + 1]
                     ELSE [call EXCEPT !.launches = @ + 1, !.page = Some(page),
                                       !.method = method, !.pc = "returned",
                                       !.debug = @ \cup {"debug_google_tier1.html"},
                                       !.ret = Some(GoogleFailed(call.last_error))]
    /\ UNCHANGED <<orchVars, tab, pool, redirect, unitVars>>

\* search_google: the attempt returned Err
GoogleAttemptErr ==
    /\ call.pc = "attempt" /\ call.fn = "search_google"
    /\ \E e \in RendererErrors :
          call' = IF ShouldRetry(call.attempt)
                  THEN [call EXCEPT !.launches = @ + 1, !.page = None,
                                    !.method = "none", !.last_error = e,
                                    !.waits = Append(@, wait_after_error(call.attempt)),
                                    !.attempt = @ + 1]
                  ELSE [call EXCEPT !.launches = @ + 1, !.page = None,
                                    !.method = "none", !.last_error = e,
                                    !.pc = "returned",
                                    !.ret = Some(GoogleFailed(e))]
    /\ UNCHANGED <<orchVars, tab, pool, redirect, unitVars>>

\* search_bing: the failure_reason printed and logged for an empty result
failure_reason(page) ==
    IF is_challenge(challenge_patterns_2, page.html) THEN "challenge_detected"
    ELSE IF is_too_small(page.len) THEN "page_too_small"
    ELSE "no_results_found"

\* the function launches the browser again after an error
BingRendererErrRetry ==
    /\ call.pc = "attempt" /\ call.fn = "search_bing"
    /\ call' = [call EXCEPT !.launches = @ + 1]
    /\ UNCHANGED <<orchVars, tab, pool, redirect, unitVars>>

\* search_bing: a `?` up to the first get_content returns the renderer's error
BingRendererErr ==
    /\ call.pc = "attempt" /\ call.fn = "search_bing"
    /\ \E e \in RendererErrors :
          call' = [call EXCEPT !.launches = @ + 1, !.pc = "returned",
                               !.ret = Some(Err(<<e>>))]
    /\ UNCHANGED <<orchVars, tab, pool, redirect, unitVars>>

\* search_bing: the files written under debug/ after the extraction
bing_debug_files(page) ==
    (IF is_challenge(challenge_patterns_2, page.html)
     THEN {"debug_bing_challenge.html"} ELSE {})
    \cup (IF BingResults(page) = <<>> THEN {"debug_bing_tier1.html"} ELSE {})

\* search_bing: log_entry, the line appended to logs/crawl_failures.log
log_entry(keyword, page) ==
    [timestamp |-> "Utc::now", engine |-> "bing", keyword |-> keyword,
     reason |-> failure_reason(page), html_len |-> page.len]

\* search_bing: "1. Check for Challenge first" on the content after the settle
BingChallengeCheck ==
    /\ call.pc = "attempt" /\ call.fn = "search_bing"
    /\ \E page \in Pages :
          call' = IF is_challenge(challenge_patterns_1, page.html)
                  THEN [call EXCEPT !.launches = @ + 1, !.page = Some(page),
                                    !.pc = "returned",
                                    !.debug = {"debug_bing_challenge_detected.html"},
                                    !.ret = Some(Err(<<"Bing Challenge Detected">>))]
                  ELSE [call EXCEPT !.launches = @ + 1, !.page = Some(page),
                                    !.pc = "extract"]
    /\ UNCHANGED <<orchVars, tab, pool, redirect, unitVars>>

\* search_bing: the second get_content fails
BingExtractErr ==
    /\ call.pc = "extract" /\ call.fn = "search_bing"
    /\ call' = [call EXCEPT !.pc = "returned", !.ret = Some(Err(<<"ScriptError">>))]
    /\ UNCHANGED <<orchVars, tab, pool, redirect, unitVars>>

\* search_bing: the content is read again after the wait for a result
\* container (a timeout of that wait and a failed screenshot are only
\* printed), the results are selected, the second challenge check and the
\* size check only choose what is printed, and Ok is returned
BingExtract ==
    /\ call.pc = "extract" /\ call.fn = "search_bing"
    /\ \E page \in Pages, failed \in SUBSET {"wait_for_element", "capture_screenshot"} :
          call' = [call EXCEPT !.page = Some(page), !.pc = "returned",
                               !.ignored = failed,
                               !.reason = IF BingResults(page) = <<>>
                                          THEN failure_reason(page) ELSE "none",
                               !.debug = bing_debug_files(page),
                               !.failure_log =
                                   IF BingResults(page) = <<>>
                                   THEN <<log_entry(call.keyword, page)>> ELSE <<>>,
                               !.ret = Some(Ok([results |-> BingResults(page)]))]
    /\ UNCHANGED <<orchVars, tab, pool, redirect, unitVars>>

\* generic_crawl: a `?` of the launch, the navigation or get_content
GenericErr ==
    /\ call.pc = "attempt" /\ call.fn = "generic_crawl"
    /\ \E e \in RendererErrors :
          call' = [call EXCEPT !.launches = @ + 1, !.pc = "returned",
                               !.ret = Some(Err(<<e>>))]
    /\ UNCHANGED <<orchVars, tab, pool, redirect, unitVars>>

\* generic_crawl: the page was read (the result of the scroll script is
\* discarded); one result for the url is returned
GenericOk ==
    /\ call.pc = "attempt" /\ call.fn = "generic_crawl"
    /\ \E page \in Pages, failed \in SUBSET {"evaluate scrollTo"} :
          \E snippet_acc \in
                IF call.selectors = None THEN {title_snippet(page.dom)}
                ELSE {map_snippet(order, call.selectors[1], page.dom) :
                         order \in IterationOrders(DOMAIN call.selectors[1])} :
             call' = [call EXCEPT !.launches = @ + 1, !.page = Some(page),
                                  !.ignored = failed,
                                  !.pc = "returned",
                                  !.ret = Some(Ok([results |->
                                      GenericResults(call.keyword, snippet_acc)]))]
    /\ UNCHANGED <<orchVars, tab, pool, redirect, unitVars>>

\* PROXY_MANAGER.get_next_proxy(): <<pool, returned descriptor>>
get_next(p) ==
    <<[p EXCEPT !.cursor = cursor_fetch_add(p.cursor),
                !.served = Append(@, IF select_proxy(p.proxies, p.cursor) = None
                                     THEN None
                                     ELSE Some(select_proxy(p.proxies, p.cursor)[1].id))],
      select_proxy(p.proxies, p.cursor)>>

\* the pool after a management call: outcome is <<descriptors, result>>
managed(p, outcome) ==
    [p EXCEPT !.proxies = outcome[1],
              !.last = Some(outcome[2]),
              !.served = IF outcome[2].tag = "Ok" THEN <<>> ELSE @]

\* api.rs add_proxy: PROXY_MANAGER.add_proxy(&payload.proxy)
PoolAdd ==
    /\ \E spec \in ProxySpecs :
          pool' = managed(pool, add(pool.proxies, spec))
    /\ UNCHANGED <<orchVars, call, tab, redirect, unitVars>>

\* api.rs remove_proxy: PROXY_MANAGER.remove_proxy(&proxy_id)
PoolRemove ==
    /\ \E id \in ProxyIds :
          pool' = [managed(pool, remove(pool.proxies, id))
                      EXCEPT !.outcomes[id] = <<>>,
                             !.disabled = @ \ {id}]
    /\ UNCHANGED <<orchVars, call, tab, redirect, unitVars>>

\* api.rs enable_proxy: PROXY_MANAGER.enable_proxy(&proxy_id)
PoolEnable ==
    /\ \E id \in ProxyIds :
          pool' = [managed(pool, enable(pool.proxies, id))
                      EXCEPT !.disabled = @ \ {id}]
    /\ UNCHANGED <<orchVars, call, tab, redirect, unitVars>>

\* disable(id)
PoolDisable ==
    /\ \E id \in ProxyIds :
          pool' = [managed(pool, disable(pool.proxies, id))
                      EXCEPT !.disabled = IF id \in Ids(pool.proxies)
                                          THEN @ \cup {id} ELSE @]
    /\ UNCHANGED <<orchVars, call, tab, redirect, unitVars>>

\* get_next_proxy by a caller: an attempt of the worker or of a task
\* spawned by trigger_crawl
PoolGetNext ==
    /\ pool.cursor < MaxRotations
    /\ pool' = get_next(pool)[1]
    /\ UNCHANGED <<orchVars, call, tab, redirect, unitVars>>

\* the number of outcomes recorded for the descriptors of the pool
RECURSIVE recorded_calls(_, _)
recorded_calls(outcomes, ids) ==
    IF ids = {} THEN 0
    ELSE LET id == CHOOSE i \in ids : TRUE
         IN Len(outcomes[id]) + recorded_calls(outcomes, ids \ {id})

\* record_outcome(id, success) for a descriptor of the pool, by one of the
\* concurrent attempts
PoolRecordOutcome ==
    /\ recorded_calls(pool.outcomes, ProxyIds) < MaxOutcomes
    /\ \E id \in Ids(pool.proxies), success \in BOOLEAN :
          pool' = [pool EXCEPT !.proxies = record_outcome(@, id, success),
                               !.outcomes[id] = Append(@, success)]
    /\ UNCHANGED <<orchVars, call, tab, redirect, unitVars>>

\* a function of crawler.rs is entered: no command was sent yet
TabOpen ==
    /\ tab.fn = "none" \/ tab.ret # None
    /\ \E fn \in TabFns : tab' = [IdleTab EXCEPT !.fn = fn]
    /\ UNCHANGED <<orchVars, call, pool, redirect, unitVars>>

\* the states entered so far, with the state of the command at t.at
entered(t) ==
    LET state == Commands(t.fn)[t.at].state
    IN IF state = "" \/ (t.states # <<>> /\ t.states[Len(t.states)] = state)
       THEN t.states
       ELSE Append(t.states, state)

\* the next command that is made after the command at t.at: the commands
\* inside an `if` whose condition does not hold are passed over
next_command(t, failed, values) ==
    LET made == {i \in (t.at + 1)..Len(Commands(t.fn)) :
                    \/ Commands(t.fn)[i].when = "always"
                    \/ Commands(t.fn)[i].when \in failed \cup values}
    IN IF made = {} THEN Len(Commands(t.fn)) + 1
       ELSE CHOOSE i \in made : \A k \in made : i <= k

\* the frame after the command at tab.at returned without an error, or
\* with an error that is dropped; after the last command the function
\* returns Ok with what it extracted from the page
commanded(t, failed, value, page) ==
    LET op == Commands(t.fn)[t.at].op
        next == next_command(t, t.failed \cup failed, t.values \cup value)
        done == next > Len(Commands(t.fn))
    IN [t EXCEPT !.at = next,
                 !.failed = @ \cup failed,
                 !.values = @ \cup value,
                 !.states = IF done /\ entered(t) # <<>>
                            THEN Append(entered(t), "DONE") ELSE entered(t),
                 !.script = @ \/ op = "AddScriptToEvaluateOnNewDocument",
                 !.loads = IF op \in PageLoads THEN Append(@, t.script) ELSE @,
                 !.ret = IF done THEN Some(Ok(page)) ELSE None]

\* the frame after the function returned an error from the command at t.at
returned_err(t, failed, e) ==
    [t EXCEPT !.failed = @ \cup failed,
              !.states = IF entered(t) # <<>> THEN Append(entered(t), "FAILED")
                         ELSE entered(t),
              !.ret = Some(Err(<<e>>))]

\* the pages the function can have before it when the command at t.at is
\* its last
PagesRead(t) == IF t.at = Len(Commands(t.fn)) THEN Pages ELSE {None}

\* the next command is PROXY_MANAGER.get_next_proxy(): the descriptor is
\* kept for the launch arguments
TabGetNextProxy ==
    /\ tab.ret = None /\ tab.at <= Len(Commands(tab.fn))
    /\ Commands(tab.fn)[tab.at].op = "get_next_proxy"
    /\ pool.cursor < MaxRotations
    /\ pool' = get_next(pool)[1]
    /\ tab' = [commanded(tab, {}, {}, None)
                  EXCEPT !.proxy = IF get_next(pool)[2] = None THEN None
                                   ELSE Some(get_next(pool)[2][1].id)]
    /\ UNCHANGED <<orchVars, call, redirect, unitVars>>

\* search_bing: "1. Check for Challenge first" on the content just read;
\* a page with a block phrase ends the attempt
TabChallengeCheck ==
    /\ tab.ret = None /\ tab.at <= Len(Commands(tab.fn))
    /\ Commands(tab.fn)[tab.at].op = "is_challenge"
    /\ \E page \in Pages :
          tab' = IF is_challenge(challenge_patterns_1, page.html)
                 THEN returned_err(tab, {}, "Bing Challenge Detected")
                 ELSE commanded(tab, {}, {}, page)
    /\ UNCHANGED <<orchVars, call, pool, redirect, unitVars>>

\* the next renderer command returns Ok
TabCommandOk ==
    /\ tab.ret = None /\ tab.at <= Len(Commands(tab.fn))
    /\ Commands(tab.fn)[tab.at].op \notin {"get_next_proxy", "is_challenge"}
    /\ \E page \in PagesRead(tab), value \in Returns(Commands(tab.fn)[tab.at].op) :
          tab' = commanded(tab, {}, {value} \ {"ok"}, page)
    /\ UNCHANGED <<orchVars, call, pool, redirect, unitVars>>

\* the next renderer command returns Err: `?` returns it from the function,
\* otherwise it is dropped and the function goes on
TabCommandErr ==
    /\ tab.ret = None /\ tab.at <= Len(Commands(tab.fn))
    /\ Commands(tab.fn)[tab.at].on_err # "never"
    /\ \E page \in PagesRead(tab) :
          tab' = IF Commands(tab.fn)[tab.at].on_err = "return"
                 THEN returned_err(tab, {Commands(tab.fn)[tab.at].op},
                                   RendererError(Commands(tab.fn)[tab.at].op))
                 ELSE commanded(tab, {Commands(tab.fn)[tab.at].op}, {}, page)
    /\ UNCHANGED <<orchVars, call, pool, redirect, unitVars>>

\* extract_website_data: the page was read and parsed; the pass begins
SiteRead ==
    /\ site.at = 0 \/ site.ret # None
    /\ \E doc \in Docs :
          site' = [doc |-> doc, at |-> 1, failed |-> {}, ret |-> None]
    /\ UNCHANGED <<orchVars, call, tab, pool, redirect, settle, chain, boot>>

\* the frame after the step at site.at was made; after the last step the
\* WebsiteData is returned
stepped(s, failed, data) ==
    [s EXCEPT !.at = next_step(s.at, failed),
              !.failed = failed,
              !.ret = IF next_step(s.at, failed) > Len(extraction_steps)
                      THEN Some(Ok(data)) ELSE None]

\* a step of the pass succeeds; the parse of a URL without a scheme does not
SiteStepOk ==
    /\ site.at > 0 /\ site.ret = None
    /\ extraction_steps[site.at].op \in {"Url::parse base_domain", "Url::parse final_url"}
          => Url_parse(site.doc.final_url).tag = "Ok"
    /\ IF next_step(site.at, site.failed) > Len(extraction_steps)
       THEN \E data \in WebsiteData(site.doc, site.failed) :
               site' = stepped(site, site.failed, data)
       ELSE site' = stepped(site, site.failed, None)
    /\ UNCHANGED <<orchVars, call, tab, pool, redirect, settle, chain, boot>>

\* a step of the pass fails: a renderer call or Readability returns Err, or
\* the URL does not parse; `?` returns the error from the function
SiteStepErr ==
    /\ site.at > 0 /\ site.ret = None
    /\ extraction_steps[site.at].on_err # "never"
    /\ extraction_steps[site.at].op \in {"Url::parse base_domain", "Url::parse final_url"}
          => Url_parse(site.doc.final_url).tag = "Err"
    /\ site' = IF extraction_steps[site.at].on_err = "return"
               THEN [site EXCEPT !.failed = @ \cup {extraction_steps[site.at].op},
                                 !.ret = Some(Err(<<extraction_steps[site.at].op>>))]
               ELSE stepped(site, site.failed \cup {extraction_steps[site.at].op}, None)
    /\ UNCHANGED <<orchVars, call, tab, pool, redirect, settle, chain, boot>>

\* the results page was requested: search_google_attempt sleeps 3 s
\* before it evaluates wait_script; the settle wait of search_bing is a
\* sleep of 3 s
SettleStart ==
    /\ settle.fn = "none" \/ settle.resolved # None
    /\ \E fn \in {"search_google_attempt", "search_bing"} :
          settle' = IF fn = "search_bing"
                    THEN [IdleSettle EXCEPT !.fn = fn, !.started = Some(0),
                                            !.timeout = Some(settle_timeout(fn))]
                    ELSE [IdleSettle EXCEPT !.fn = fn]
    /\ UNCHANGED <<orchVars, call, tab, pool, redirect, site, chain, boot>>

\* wait_script is evaluated: the MutationObserver is registered on
\* document.body and the 12 s timer is set
SettleObserve ==
    /\ settle.fn = "search_google_attempt" /\ settle.started = None
    /\ settle.now = InitSecs
    /\ settle' = [settle EXCEPT !.started = Some(settle.now),
                                !.observing = TRUE,
                                !.timeout = Some(settle.now + settle_timeout(settle.fn))]
    /\ UNCHANGED <<orchVars, call, tab, pool, redirect, site, chain, boot>>

\* the debounce timer is set by the first mutation only
SettleMutationNoReset ==
    /\ settle.fn # "none" /\ settle.resolved = None
    /\ settle.mutated # Some(settle.now)
    /\ settle' = [settle EXCEPT !.mutated = Some(settle.now),
                                !.last_observed = IF settle.observing
                                                  THEN Some(settle.now) ELSE @,
                                !.debounce = IF settle.observing /\ @ = None
                                             THEN Some(settle.now + DebounceSecs)
                                             ELSE @]
    /\ UNCHANGED <<orchVars, call, tab, pool, redirect, site, chain, boot>>

\* the page changes its DOM; the observer's callback, when there is an
\* observer, clears the debounce timer and sets it again
SettleMutation ==
    /\ settle.fn # "none" /\ settle.resolved = None
    /\ settle.mutated # Some(settle.now)
    /\ settle' = [settle EXCEPT !.mutated = Some(settle.now),
                                !.last_observed = IF settle.observing
                                                  THEN Some(settle.now) ELSE @,
                                !.debounce = IF settle.observing
                                             THEN Some(settle.now + DebounceSecs)
                                             ELSE @]
    /\ UNCHANGED <<orchVars, call, tab, pool, redirect, site, chain, boot>>

\* a second passes; a timer that is due runs first, and so does the
\* evaluation of wait_script after the sleep
SettleTick ==
    /\ settle.fn # "none" /\ settle.resolved = None
    /\ settle.debounce # None => settle.debounce[1] > settle.now
    /\ IF settle.timeout = None THEN settle.now < InitSecs
       ELSE settle.timeout[1] > settle.now
    /\ settle' = [settle EXCEPT !.now = @ + 1]
    /\ UNCHANGED <<orchVars, call, tab, pool, redirect, site, chain, boot>>

\* wait_script: the debounce timer runs: resolve("mutations_complete")
SettleDebounce ==
    /\ settle.resolved = None
    /\ settle.debounce # None /\ settle.debounce[1] <= settle.now
    /\ settle' = [settle EXCEPT !.observing = FALSE,
                                !.resolved = Some([at |-> settle.now,
                                                   value |-> "mutations_complete"])]
    /\ UNCHANGED <<orchVars, call, tab, pool, redirect, site, chain, boot>>

\* wait_script: the 12 s timer runs: resolve("timeout_reached");
\* search_bing: the sleep is over
SettleTimeout ==
    /\ settle.resolved = None
    /\ settle.timeout # None /\ settle.timeout[1] <= settle.now
    /\ settle' = [settle EXCEPT !.observing = FALSE,
                                !.resolved = Some([at |-> settle.now,
                                                   value |-> IF settle.fn = "search_bing"
                                                             THEN "slept"
                                                             ELSE "timeout_reached"])]
    /\ UNCHANGED <<orchVars, call, tab, pool, redirect, site, chain, boot>>

\* extract_website_data: `let actual_url = decode_search_url(url)`, for the
\* link of one deep extraction
ExtractDecode ==
    /\ redirect = None
    /\ \E url \in Links :
          redirect' = Some([url |-> url, actual_url |-> decode_search_url(url)])
    /\ UNCHANGED <<orchVars, call, tab, pool, unitVars>>

\* process_job: `match search_results`: Ok(data) => data, Err(e) => return Err(e)
match_search_results(ret) ==
    IF ret.tag = "Ok" THEN <<"serp_data", ret.value>>
    ELSE <<"return Err", ret.value>>

\* process_job: the match on the returned Result
ProcessJobMatch ==
    /\ call.pc = "returned"
    /\ call' = [call EXCEPT !.pc = "matched",
                            !.caller = match_search_results(call.ret[1])]
    /\ UNCHANGED <<orchVars, tab, pool, redirect, unitVars>>

(***************************************************************************)
(* The system.                                                             *)
(***************************************************************************)
TaskIds == {Uuid(n) : n \in 1..(MaxPushes + MaxSubmits)}

Worker(w) ==
    \/ WorkerPopJob(w)
    \/ WorkerPopEmpty(w)
    \/ WorkerPopErr(w)
    \/ WorkerWake(w)
    \/ ProcSearchOk(w)
    \/ ProcSearchErr(w)
    \/ ProcExtract(w)
    \/ ProcStore(w)
    \/ ProcInsertOk(w)
    \/ ProcInsertDup(w)
    \/ ProcInsertErr(w)

ApiTask(id) ==
    \/ ApiSearchOk(id)
    \/ ApiSearchErr(id)
    \/ ApiExtract(id)
    \/ ApiInsert(id)

\* main(): the worker, the scheduler and the producers on the queue
Next ==
    \/ PushJob
    \/ SchedulerFire
    \/ SchedulerFireErr
    \/ \E w \in workers : Worker(w)
    \/ \E w \in workers : Crash(w)

Spec == Init /\ [][Next]_vars

(***************************************************************************)
(* Two worker instances sharing the queue and the stores.                  *)
(***************************************************************************)
ScaledInit == Deployed(2)

ScaledSpec == ScaledInit /\ [][Next]_vars

(***************************************************************************)
(* main() with the router: the request handler and its spawned tasks next  *)
(* to the worker and the scheduler.                                        *)
(***************************************************************************)
ApiNext ==
    \/ TriggerCrawl
    \/ \E id \in TaskIds : ApiTask(id)
    \/ SchedulerFire
    \/ SchedulerFireErr
    \/ \E w \in workers : Worker(w)

ApiSpec == Init /\ [][ApiNext]_vars

(***************************************************************************)
(* The router alone: requests and the tasks they spawn.                    *)
(***************************************************************************)
RouterNext ==
    \/ TriggerCrawl
    \/ \E id \in TaskIds : ApiTask(id)

RouterSpec == Init /\ [][RouterNext]_vars

(***************************************************************************)
(* Search automation alone: calls of the three search functions with every *)
(* page and renderer error the model knows.                                *)
(***************************************************************************)
SearchNext ==
    \/ SearchCall
    \/ GoogleAttemptSuccess
    \/ GoogleAttemptEmpty
    \/ GoogleAttemptErr
    \/ BingRendererErr
    \/ BingChallengeCheck
    \/ BingExtractErr
    \/ BingExtract
    \/ GenericErr
    \/ GenericOk
    \/ ProcessJobMatch

SearchSpec == Init /\ [][SearchNext]_vars

(***************************************************************************)
(* The renderer commands of the attempts, with the pool the attempts take  *)
(* their proxy from and the operator adding proxies at runtime.            *)
(***************************************************************************)
RendererNext ==
    \/ PoolAdd
    \/ TabOpen
    \/ TabGetNextProxy
    \/ TabChallengeCheck
    \/ TabCommandOk
    \/ TabCommandErr

RendererSpec == Init /\ [][RendererNext]_vars

(***************************************************************************)
(* The egress pool alone: the management calls and the concurrent callers  *)
(* of get_next and record_outcome.                                         *)
(***************************************************************************)
PoolNext ==
    \/ PoolAdd
    \/ PoolRemove
    \/ PoolEnable
    \/ PoolDisable
    \/ PoolGetNext
    \/ PoolRecordOutcome

PoolSpec == Init /\ [][PoolNext]_vars

(***************************************************************************)
(* De-redirection alone: decode_search_url applied to the links.           *)
(***************************************************************************)
DecodeNext == ExtractDecode

DecodeSpec == Init /\ [][DecodeNext]_vars

(***************************************************************************)
(* The content-extraction pass of extract_website_data over the documents  *)
(* a page can be parsed into.                                              *)
(***************************************************************************)
SiteNext ==
    \/ SiteRead
    \/ SiteStepOk
    \/ SiteStepErr

SiteSpec == Init /\ [][SiteNext]_vars

(***************************************************************************)
(* The settle wait of one attempt against a page that changes its DOM at   *)
(* any second.                                                             *)
(***************************************************************************)
SettleNext ==
    \/ SettleStart
    \/ SettleObserve
    \/ SettleMutation
    \/ SettleTick
    \/ SettleDebounce
    \/ SettleTimeout

SettleSpec == Init /\ [][SettleNext]_vars

(***************************************************************************)
(* search_google_attempt: the extraction chain, one action per outcome of  *)
(* a tab.evaluate.                                                         *)
(***************************************************************************)
\* the settle wait resolved on some page
ChainStart ==
    /\ chain.at \in {"idle", "done"}
    /\ \E page \in GooglePages :
          chain' = [IdleChain EXCEPT !.page = Some(page), !.at = "dom"]
    /\ UNCHANGED <<orchVars, call, tab, pool, redirect, site, settle, boot>>

\* match tab.evaluate(dom_extract_script, true) { Ok(result) => ... }
ChainDomOk ==
    /\ chain.at = "dom"
    /\ \E o \in {"Ok string", "Ok other"} :
          chain' = [chain EXCEPT
                       !.at = "done",
                       !.evaluated = Append(@, "dom_extract_script"),
                       !.outcomes = Append(@, o),
                       !.steps = @ \o dom_extract_script(chain.page[1]).steps,
                       !.extraction_method =
                           IF o = "Ok string"
                           THEN dom_extract_script(chain.page[1]).method
                           ELSE "fallback",
                       !.results =
                           IF o = "Ok string"
                           THEN dom_extract_script(chain.page[1]).results
                           ELSE <<>>]
    /\ UNCHANGED <<orchVars, call, tab, pool, redirect, site, settle, boot>>

\* Err(e) => extraction_method = "js_context"; the second script is next
ChainDomErr ==
    /\ chain.at = "dom"
    /\ chain' = [chain EXCEPT !.at = "js",
                              !.evaluated = Append(@, "dom_extract_script"),
                              !.outcomes = Append(@, "Err"),
                              !.extraction_method = "js_context"]
    /\ UNCHANGED <<orchVars, call, tab, pool, redirect, site, settle, boot>>

\* match tab.evaluate(js_extract_script, true) { Ok(js_result) => ... }
ChainJsOk ==
    /\ chain.at = "js"
    /\ \E o \in {"Ok string", "Ok other"} :
          chain' = [chain EXCEPT
                       !.at = "done",
                       !.evaluated = Append(@, "js_extract_script"),
                       !.outcomes = Append(@, o),
                       !.steps = @ \o js_extract_script(chain.page[1]).steps,
                       !.results =
                           IF o = "Ok string"
                           THEN js_extract_script(chain.page[1]).results
                           ELSE <<>>]
    /\ UNCHANGED <<orchVars, call, tab, pool, redirect, site, settle, boot>>

\* Err(_) => results = Vec::new()
ChainJsErr ==
    /\ chain.at = "js"
    /\ chain' = [chain EXCEPT !.at = "done",
                              !.evaluated = Append(@, "js_extract_script"),
                              !.outcomes = Append(@, "Err"),
                              !.results = <<>>]
    /\ UNCHANGED <<orchVars, call, tab, pool, redirect, site, settle, boot>>

ChainNext ==
    \/ ChainStart
    \/ ChainDomOk
    \/ ChainDomErr
    \/ ChainJsOk
    \/ ChainJsErr

ChainSpec == Init /\ [][ChainNext]_vars

(***************************************************************************)
(* main(): one action per response of a store.                             *)
(***************************************************************************)
\* PgPoolOptions::connect returned Ok(p): break p
BootConnectOk ==
    /\ boot.pc = "connect"
    /\ boot' = [boot EXCEPT !.pc = "init_db"]
    /\ UNCHANGED <<orchVars, call, tab, pool, redirect, site, settle, chain>>

\* PgPoolOptions::connect returned Err: attempts += 1, the 15th ends main,
\* the others sleep 2 s and connect again
BootConnectErr ==
    /\ boot.pc = "connect"
    /\ boot' = IF boot.db_attempts + 1 >= DbAttempts
               THEN [boot EXCEPT !.db_attempts = @ + 1, !.pc = "exited",
                                 !.ret = Some(Err(<<"connect">>))]
               ELSE [boot EXCEPT !.db_attempts = @ + 1]
    /\ UNCHANGED <<orchVars, call, tab, pool, redirect, site, settle, chain>>

\* db::init_db(&pool).await?
BootInitDb ==
    /\ boot.pc = "init_db"
    /\ \E ok \in BOOLEAN :
          boot' = IF ok
                  THEN [boot EXCEPT !.pc = "head_bucket",
                                    !.initialised = @ \cup {"database"}]
                  ELSE [boot EXCEPT !.pc = "exited", !.ret = Some(Err(<<"init_db">>))]
    /\ UNCHANGED <<orchVars, call, tab, pool, redirect, site, settle, chain>>

\* head_bucket returned Ok: break
BootHeadOk ==
    /\ boot.pc = "head_bucket"
    /\ boot' = [boot EXCEPT !.pc = "queue", !.initialised = @ \cup {"storage"}]
    /\ UNCHANGED <<orchVars, call, tab, pool, redirect, site, settle, chain>>

\* head_bucket returned a not-found error: create_bucket is called
BootHeadNotFound ==
    /\ boot.pc = "head_bucket"
    /\ boot.create_errs < MaxCreateErrs
    /\ boot' = [boot EXCEPT !.pc = "create_bucket"]
    /\ UNCHANGED <<orchVars, call, tab, pool, redirect, site, settle, chain>>

\* head_bucket returned another error: attempts += 1, the 30th returns Err
\* (main panics on it), the others sleep 2 s and loop
BootHeadErr ==
    /\ boot.pc = "head_bucket"
    /\ boot' = IF boot.attempts + 1 >= BucketAttempts
               THEN [boot EXCEPT !.attempts = @ + 1, !.failed = @ + 1,
                                 !.pc = "exited",
                                 !.ret = Some(Err(<<"Failed to init MinIO">>))]
               ELSE [boot EXCEPT !.attempts = @ + 1, !.failed = @ + 1]
    /\ UNCHANGED <<orchVars, call, tab, pool, redirect, site, settle, chain>>

\* create_bucket returned Ok: break
BootCreateOk ==
    /\ boot.pc = "create_bucket"
    /\ boot' = [boot EXCEPT !.pc = "queue", !.initialised = @ \cup {"storage"}]
    /\ UNCHANGED <<orchVars, call, tab, pool, redirect, site, settle, chain>>

\* create_bucket returned Err: it is printed and the loop goes round;
\* attempts is not touched and nothing sleeps
BootCreateErr ==
    /\ boot.pc = "create_bucket"
    /\ boot' = [boot EXCEPT !.pc = "head_bucket", !.failed = @ + 1,
                            !.create_errs = @ + 1]
    /\ UNCHANGED <<orchVars, call, tab, pool, redirect, site, settle, chain>>

\* QueueManager::new().await.expect("Failed to init Redis")
BootQueue ==
    /\ boot.pc = "queue"
    /\ \E ok \in BOOLEAN :
          boot' = IF ok
                  THEN [boot EXCEPT !.pc = "spawn",
                                    !.initialised = @ \cup {"queue"}]
                  ELSE [boot EXCEPT !.pc = "exited",
                                    !.ret = Some(Err(<<"Failed to init Redis">>))]
    /\ UNCHANGED <<orchVars, call, tab, pool, redirect, site, settle, chain>>

\* tokio::spawn of start_worker and of start_scheduler
BootSpawn ==
    /\ boot.pc = "spawn"
    /\ boot' = [boot EXCEPT !.pc = "serving", !.spawned = {"worker", "scheduler"}]
    /\ UNCHANGED <<orchVars, call, tab, pool, redirect, site, settle, chain>>

BootNext ==
    \/ BootConnectOk
    \/ BootConnectErr
    \/ BootInitDb
    \/ BootHeadOk
    \/ BootHeadNotFound
    \/ BootHeadErr
    \/ BootCreateOk
    \/ BootCreateErr
    \/ BootQueue
    \/ BootSpawn

BootSpec == Init /\ [][BootNext]_vars

(***************************************************************************)
(* The worker of main() without crashes. The executor keeps the worker     *)
(* task running (weak fairness of its steps), and a pop_job that is tried  *)
(* again and again on a non-empty queue eventually gets through to Redis   *)
(* (strong fairness of the successful pop).                                *)
(***************************************************************************)
LiveNext ==
    \/ PushJob
    \/ SchedulerFire
    \/ SchedulerFireErr
    \/ \E w \in workers : Worker(w)

LiveSpec ==
    /\ Init
    /\ [][LiveNext]_vars
    /\ WF_vars(Worker(1))
    /\ SF_vars(WorkerPopJob(1))

(***************************************************************************)
(* Properties.                                                             *)
(***************************************************************************)
Range(seq) == {seq[i] : i \in 1..Len(seq)}

Count(seq, x) == Cardinality({i \in 1..Len(seq) : seq[i] = x})

Processing(w) == pc[w] \in {"search", "extract", "store", "insert"}

\* C1: the queue is FIFO. Every pop_job that returns a job returns the oldest
\* pushed job not yet popped, equal to it in id, keyword, engine and
\* selectors, and removes exactly that entry; a pop_job on the empty queue
\* returns none (the worker goes to its 1 s sleep, no error) and leaves the
\* queue empty; the jobs popped so far are, in order, the first jobs pushed.
C1_QueueFifo ==
    [][\A w \in workers :
          (pc[w] = "pop" /\ pc'[w] \notin {"pop", "sleep_5s"}) =>
             /\ IF queue = <<>>
                THEN pc'[w] = "sleep_1s" /\ job'[w] = None /\ queue' = <<>>
                ELSE /\ Len(pushed) > Len(popped)
                     /\ job'[w] = Some(pushed[Len(popped) + 1])
                     /\ Len(queue') = Len(queue) - 1
             /\ Len(popped') <= Len(pushed')
             /\ \A i \in 1..Len(popped') : popped'[i] = pushed[i]]_vars

\* C1 witness: two different jobs were pushed, the one with a selector map
\* first; it has been popped and the other one is still queued.
C1_Witness ==
    /\ Len(pushed) = 2
    /\ pushed[1] # pushed[2]
    /\ pushed[1].selectors # None
    /\ popped = <<pushed[1]>>
    /\ Len(queue) = 1

\* C2: at-most-once delivery. No job is handed out by pop_job more often
\* than it was pushed, with one or with two workers popping, and the jobs
\* held by the workers and the jobs they finished are together no more than
\* the jobs popped.
C2_AtMostOnce ==
    /\ \A j \in Range(popped) : Count(popped, j) <= Count(pushed, j)
    /\ Cardinality({w \in workers : job[w] # None}) + Len(workerLog) <= Len(popped)
    /\ \A w \in workers : job[w] # None => job[w][1] \in Range(popped)

\* C2 witness: two workers hold the two jobs that were pushed, at once.
C2_Witness ==
    /\ Cardinality(workers) = 2
    /\ Len(pushed) = 2
    /\ Len(popped) = 2
    /\ job[1] # None
    /\ job[2] # None

\* C4: no redelivery and no retry. A job that was popped is never put back:
\* the queue always holds exactly the pushed jobs not yet popped, oldest
\* last, and when process_job fails or the worker crashes in the middle of
\* a job the queue is left as it is and that worker goes back to pop_job.
C4_NoRedelivery ==
    [][/\ Len(queue') = Len(pushed') - Len(popped')
       /\ \A i \in 1..Len(queue') :
             from_str(queue'[i]) = pushed'[Len(pushed') + 1 - i]
       /\ \A w \in workers :
             (Processing(w) /\ ~Processing(w)') =>
                 /\ pc'[w] = "pop"
                 /\ job'[w] = None
                 /\ queue' = queue]_vars

\* C4 witness: the single worker failed its first job while the second job
\* was queued, and has popped the second one since.
C4_Witness ==
    /\ Len(workerLog) = 1
    /\ workerLog[1].result = "failed"
    /\ Len(popped) = 2
    /\ queue = <<>>
    /\ pc[1] = "search"

\* browser processes in flight: searches and deep extractions under way
Crawling ==
    {<<"worker", w>> : w \in {v \in workers : pc[v] \in {"search", "extract"}}}
    \cup {<<"api", id>> : id \in {t \in DOMAIN apiTasks :
                                     apiTasks[t].pc \in {"search", "extract"}}}

\* C5 as claimed: with a single worker at most one crawl is in flight, and
\* none of them was started by the request handler.
C5_OneCrawlInFlight ==
    Cardinality(workers) = 1 =>
        /\ Cardinality(Crawling) <= 1
        /\ \A c \in Crawling : c[1] = "worker"

\* C6: every submission is answered with the id it generated, whatever
\* becomes of the crawl: there are as many acknowledgments as submissions,
\* a submission is accepted in every state, the spawned crawl runs under an
\* acknowledged id, and polling an acknowledged id yields nothing or the
\* record written under that very id for the submitted keyword.
C6_AckCarriesId ==
    /\ ((Len(acks) < MaxSubmits) => ENABLED TriggerCrawl)
    /\ DOMAIN apiTasks \subseteq {acks[i].task_id : i \in 1..Len(acks)}
    /\ \A i \in 1..Len(acks) :
          /\ acks[i].message = "Crawl started"
          /\ \A k \in 1..Len(acks) : acks[k].task_id = acks[i].task_id => k = i
          /\ get_crawl_status(acks[i].task_id) # None =>
                /\ get_crawl_status(acks[i].task_id)[1].id = acks[i].task_id
                /\ get_crawl_status(acks[i].task_id)[1].keyword = "kw"
    /\ \A f \in files : f[1] # "crawl_errors.log" =>
          f[2] \in {acks[i].task_id : i \in 1..Len(acks)}
    /\ \A id \in DOMAIN db :
          id \in {acks[i].task_id : i \in 1..Len(acks)}
                 \cup {popped[i].id : i \in 1..Len(popped)}

\* C6 witness: the outcome of an acknowledged submission is stored under
\* the acknowledged id and a poll returns it.
C6_Witness ==
    \E i \in 1..Len(acks) : get_crawl_status(acks[i].task_id) # None

\* C7: producers are never blocked by the consumer. In every state, also
\* while the worker is in the middle of a job, the scheduler's push and a
\* producer's push_job are enabled and put their job at the head of the
\* queue in that one step (up to the bound of the model on pushes).
C7_ProducersNeverBlocked ==
    Len(pushed) < MaxPushes =>
        /\ ENABLED SchedulerFire
        /\ ENABLED PushJob
        /\ \A j \in ExtJobs : ENABLED (push_job(j) /\ Len(queue') = Len(queue) + 1)

\* C7 witness: every worker is in the middle of a job and the scheduler
\* may still fire.
C7_Witness ==
    /\ \A w \in workers : Processing(w)
    /\ Len(pushed) < MaxPushes

\* the steps of one process_job, in order, for a search function and its data
Canon(fn, sd) ==
    <<fn>> \o (IF Len(sd.results) > 0 THEN <<"extract_website_data">> ELSE <<>>)
           \o <<"store">>

IsPrefix(a, b) == Len(a) <= Len(b) /\ \A i \in 1..Len(a) : a[i] = b[i]

\* C8: the worker runs the steps of a job in the order search, deep
\* extraction of the first result, blob step, task-record write. Deep
\* extraction is attempted exactly when the search returned at least one
\* result; the record is written only after the search returned Ok and the
\* blob step was passed.
C8_StepOrder ==
    [][\A w \in workers :
          /\ (stepLog'[w] # <<>>) =>
                /\ serp'[w] # None
                /\ IsPrefix(stepLog'[w],
                            Canon(SearchFn(job'[w][1].engine), serp'[w][1]))
          /\ (pc'[w] = "extract") => Len(serp'[w][1].results) > 0
          /\ (pc[w] = "search" /\ pc'[w] = "store") => Len(serp'[w][1].results) = 0
          /\ (Processing(w) /\ ~Processing(w)' /\ db' # db) =>
                /\ pc[w] = "insert"
                /\ stepLog[w] = Canon(SearchFn(job[w][1].engine), serp[w][1])]_vars

\* C8 witness: a worker is about to write the record of a job whose search
\* found no result, so that deep extraction was skipped.
C8_Witness ==
    \E w \in workers :
        /\ pc[w] = "insert"
        /\ stepLog[w] = <<"search_bing", "store">>

\* the job ids of the blobs in the object store
BlobIds(store) == {k[3] : k \in DOMAIN store}

\* C9: a job whose search fails leaves no trace. The failing search writes
\* neither a record nor a blob; records and blobs exist only for ids whose
\* search returned Ok; a record, once written, is never changed or removed.
C9_FailedSearchNoTrace ==
    [][/\ DOMAIN db' \subseteq searched'
       /\ BlobIds(blobs') \subseteq searched'
       /\ \A id \in DOMAIN db : id \in DOMAIN db' /\ db'[id] = db[id]
       /\ \A w \in workers :
             (pc[w] = "search" /\ pc'[w] = "pop") => (db' = db /\ blobs' = blobs)]_vars

\* C9 witness: a job failed in its search and no record and no blob carry
\* its id, while another job has its record.
C9_Witness ==
    /\ \E i \in 1..Len(workerLog) :
          /\ workerLog[i].error = "search"
          /\ workerLog[i].job.id \notin DOMAIN db \cup BlobIds(blobs)
    /\ DOMAIN db # {}

\* C10 as claimed: the record write is an upsert, so no job fails on the
\* key of an existing record.
C10_UpsertNeverFails ==
    \A i \in 1..Len(workerLog) : workerLog[i].error # "duplicate_key"

\* C10, amended to the INSERT of the code: when a worker reaches the record
\* write for a job whose id already has a record, the job fails (duplicate
\* key) and the table is left as it was: still that one record for the id,
\* with its old values.
C10_InsertKeepsFirstRecord ==
    [][\A w \in workers :
          (pc[w] = "insert" /\ pc'[w] = "pop" /\ workerLog' # workerLog
              /\ job[w][1].id \in DOMAIN db) =>
             /\ db' = db
             /\ workerLog' = Append(workerLog, workerLog'[Len(workerLog')])
             /\ workerLog'[Len(workerLog')].job = job[w][1]
             /\ workerLog'[Len(workerLog')].result = "failed"]_vars

\* C10 witness: a job failed on the key of an existing record, and the
\* record still holds the values of the job that wrote it first.
C10_Witness ==
    \E i \in 1..Len(workerLog) :
        /\ workerLog[i].error = "duplicate_key"
        /\ workerLog[i].job.id \in DOMAIN db
        /\ db[workerLog[i].job.id].engine # workerLog[i].job.engine

\* the k-th terminal outcome is the outcome of the k-th accepted job: either
\* its record is in the tasks table or its failure was printed with its cause
OutcomeOf(k) ==
    /\ workerLog[k].job = pushed[k]
    /\ popped[k] = pushed[k]
    /\ \/ /\ workerLog[k].result = "completed"
          /\ workerLog[k].error = "none"
          /\ get_crawl_status(pushed[k].id) # None
          /\ get_crawl_status(pushed[k].id)[1].keyword = pushed[k].keyword
          /\ get_crawl_status(pushed[k].id)[1].engine = pushed[k].engine
       \/ /\ workerLog[k].result = "failed"
          /\ workerLog[k].error \in {"search", "duplicate_key", "database"}

C11_BlobIffHtml ==
    [][/\ \A w \in workers :
             (pc[w] = "store" /\ pc'[w] = "insert") =>
                /\ (upload'[w] # None) <=> (first[w] # None /\ first[w][1].html # "")
                /\ (Len(serp[w][1].results) = 0) => upload'[w] = None
                /\ (upload'[w] # None) =>
                      /\ upload'[w][1].key =
                            <<job[w][1].engine, "/", job[w][1].id, ".html">>
                      /\ upload'[w][1].content = first[w][1].html
                      /\ (upload'[w][1].result = "Ok") =>
                            /\ upload'[w][1].key \in DOMAIN blobs'
                            /\ blobs'[upload'[w][1].key] = first[w][1].html
       /\ (blobs' # blobs) =>
             \E w \in workers :
                /\ pc[w] = "store"
                /\ upload'[w] # None
                /\ upload'[w][1].result = "Ok"
                /\ DOMAIN blobs' = DOMAIN blobs \cup {upload'[w][1].key}
                /\ \A k \in DOMAIN blobs : k # upload'[w][1].key => blobs'[k] = blobs[k]
       /\ \A k \in DOMAIN blobs' :
             \E i \in 1..Len(popped') :
                k = <<popped'[i].engine, "/", popped'[i].id, ".html">>]_vars

\* C11 witness: a job was completed without a blob (no HTML to store) and
\* the job after it has its HTML in the blob store under its own key.
C11_Witness ==
    \E w \in workers :
        /\ pc[w] = "insert"
        /\ upload[w] # None
        /\ upload[w][1].result = "Ok"
        /\ upload[w][1].key \in DOMAIN blobs
        /\ \E i \in 1..Len(workerLog) :
              /\ workerLog[i].result = "completed"
              /\ <<workerLog[i].job.engine, "/", workerLog[i].job.id, ".html">>
                    \notin DOMAIN blobs

\* C12: a persistence failure after a successful crawl neither rolls back
\* nor re-runs the crawl. A failed blob write is printed and leaves the
\* worker at the record write with its crawl data untouched. A failed record
\* write is reported as the failure of that job; the blob store, the table
\* and the queue are left as they are (a blob already written stays), the
\* worker is back at pop_job without a job, so the search is not run again,
\* and a worker at pop_job with a job queued can pop it.
C12_NoRollbackNoRerun ==
    /\ [][\A w \in workers :
             /\ (pc[w] = "store" /\ upload'[w] # None /\ upload'[w][1].result = "Err") =>
                   /\ upload'[w][1].printed = "MinIO upload failed"
                   /\ pc'[w] = "insert"
                   /\ blobs' = blobs /\ db' = db /\ queue' = queue
                   /\ job'[w] = job[w] /\ serp'[w] = serp[w] /\ first'[w] = first[w]
                   /\ workerLog' = workerLog
             /\ (pc[w] = "insert" /\ pc'[w] # "insert" /\ db' = db
                    /\ workerLog' # workerLog) =>
                   /\ workerLog' = Append(workerLog,
                                          [job |-> job[w][1], result |-> "failed",
                                           error |-> workerLog'[Len(workerLog')].error])
                   /\ workerLog'[Len(workerLog')].error \in {"database", "duplicate_key"}
                   /\ blobs' = blobs
                   /\ (upload[w] # None /\ upload[w][1].result = "Ok") =>
                          /\ upload[w][1].key \in DOMAIN blobs'
                          /\ blobs'[upload[w][1].key] = upload[w][1].content
                   /\ queue' = queue /\ searched' = searched
                   /\ pc'[w] = "pop" /\ job'[w] = None
             /\ Len(stepLog'[w]) > 0 =>
                   \A i \in 2..Len(stepLog'[w]) : stepLog'[w][i] # stepLog'[w][1]]_vars
    /\ [](\A w \in workers :
             (pc[w] = "pop" /\ queue # <<>>) => ENABLED WorkerPopJob(w))

\* C12 witness: the record write of the first job failed after its blob was
\* written, the blob is still there, and the worker is at the record write
\* of the next job after a failed upload.
C12_Witness ==
    /\ Len(workerLog) = 1
    /\ workerLog[1].error = "database"
    /\ <<workerLog[1].job.engine, "/", workerLog[1].job.id, ".html">> \in DOMAIN blobs
    /\ workerLog[1].job.id \notin DOMAIN db
    /\ \E w \in workers :
          /\ pc[w] = "insert"
          /\ upload[w] # None
          /\ upload[w][1].result = "Err"

C14_GoogleAtMostThreeAttempts ==
    /\ [](call.fn = "search_google" =>
             /\ call.launches <= 3
             /\ (call.pc = "attempt") =>
                   (call.launches < 3 /\ call.attempt = call.launches + 1)
             /\ (call.pc \in {"returned", "matched"}) =>
                   \/ /\ call.ret[1].tag = "Ok"
                      /\ Len(call.ret[1].value.results) >= 1
                      /\ call.page # None
                      /\ call.ret[1].value.results
                            = GoogleResults(call.method, call.page[1])
                   \/ /\ call.ret[1].tag = "Err"
                      /\ call.launches = 3
                      /\ call.ret[1].value =
                            <<"Google search failed after 3 attempts. Last error: ",
                              call.last_error>>)
    /\ [][(call.fn = "search_google" /\ call.pc = "attempt" /\ call' # call) =>
             LET failed == \/ call'.page = None
                           \/ GoogleResults(call'.method, call'.page[1]) = <<>>
             IN /\ call'.fn = "search_google"
                /\ call'.launches = call.launches + 1
                /\ (call'.pc = "attempt") <=> (failed /\ call.launches + 1 < 3)
                /\ (call'.pc # "attempt") => call'.pc = "returned"
                /\ (~failed) => call'.ret[1].tag = "Ok"]_vars
    /\ [][(call.pc = "returned") =>
             (call'.launches = call.launches /\ call'.ret = call.ret)]_vars

\* C14 witness: a call of search_google has returned the results of its third
\* attempt, after one attempt that returned an error and one without results.
C14_Witness ==
    /\ call.fn = "search_google"
    /\ call.pc = "returned"
    /\ call.launches = 3
    /\ call.ret[1].tag = "Ok"
    /\ call.last_error \in RendererErrors
    /\ call.waits = <<5, 10>>

\* C15 as claimed: the wait after attempt n of search_google is 5 x n
\* seconds, whether the attempt returned an error or no results, and there
\* are at most two waits.
C15_LinearBackoff ==
    call.fn = "search_google" =>
        /\ Len(call.waits) <= 2
        /\ \A n \in 1..Len(call.waits) : call.waits[n] = 5 * n

Returned == call.pc \in {"returned", "matched"}

\* C17 as claimed: whatever the search function, a call whose rendered page
\* contains a known block phrase (in any case) does not return Ok.
C17_ChallengeNeverOk ==
    (Returned /\ call.page # None /\ is_challenge(BlockPhrases, call.page[1].html)) =>
        call.ret[1].tag # "Ok"

\* C18 as claimed: a call of search_bing whose rendered page is below the
\* minimum size of a results page does not return Ok.
C18_SmallPageFails ==
    (Returned /\ call.fn = "search_bing" /\ call.page # None
        /\ call.page[1].len < MinResultsPageLen) =>
        call.ret[1].tag # "Ok"

\* C19 as claimed: only failures of the renderer come back as Err; a
\* detected challenge and an empty result come back as values of their own,
\* so that an Ok always carries results.
C19_OnlyRendererErrors ==
    Returned =>
        /\ (call.ret[1].tag = "Err") =>
               call.ret[1].value \in {<<e>> : e \in RendererErrors}
        /\ (call.ret[1].tag = "Ok") => call.ret[1].value.results # <<>>

\* C20 as claimed: a SerpData returned by any of the search functions has at
\* most 10 results.
C20_AtMostTenResults ==
    (Returned /\ call.ret[1].tag = "Ok") => Len(call.ret[1].value.results) <= 10

\* C21: generic_crawl returns exactly one result, and its link is the target
\* url. With a selector map the snippet contains, for every field whose
\* selector parses, the text of every element of the page that the selector
\* matches; without a map it contains the title of the page, when the page
\* has one.
C21_GenericOneResult ==
    (Returned /\ call.fn = "generic_crawl" /\ call.ret[1].tag = "Ok") =>
        LET results == call.ret[1].value.results
            dom == call.page[1].dom
            parses(sel) == sel \in {"title", "h1", "p"}
        IN /\ Len(results) = 1
           /\ results[1].link = call.keyword
           /\ (call.selectors # None) =>
                 \A key \in DOMAIN call.selectors[1] :
                    parses(call.selectors[1][key]) =>
                       \A i \in 1..Len(dom) :
                          (dom[i].tag = call.selectors[1][key]) =>
                             \E k \in 1..Len(results[1].snippet) :
                                results[1].snippet[k] = dom[i].text
           /\ (call.selectors = None) =>
                 \A i \in 1..Len(dom) :
                    (dom[i].tag = "title") =>
                       \E k \in 1..Len(results[1].snippet) :
                          results[1].snippet[k] = dom[i].text

\* C21 witness: generic_crawl has returned for the map {"title": "h1"} on a
\* page with the elements <h1>Hello</h1> and <h1>World</h1>, and the snippet
\* of its one result contains "Hello".
C21_Witness ==
    /\ Returned
    /\ call.fn = "generic_crawl"
    /\ call.selectors = Some([title |-> "h1"])
    /\ call.ret[1].tag = "Ok"
    /\ Len(call.page[1].dom) = 3
    /\ \E k \in 1..Len(call.ret[1].value.results[1].snippet) :
          call.ret[1].value.results[1].snippet[k] = "Hello"

\* C22 as claimed: every document loaded in a tab of search_bing,
\* search_google_attempt, generic_crawl or extract_website_data was loaded
\* after the stealth script had been registered for the tab.
C22_StealthBeforeEveryLoad ==
    \A i \in 1..Len(tab.loads) : tab.loads[i]

\* C23 as claimed: an attempt in which nothing failed but commands that
\* imitate a person (typing, mouse movement, scrolling) hands the page to
\* the extraction like the attempt in which they did not fail.
C23_InteractionNeverAffectsOutcome ==
    (tab.ret # None /\ tab.failed # {} /\ tab.failed \subseteq HumanInteraction) =>
        tab.ret[1].tag = "Ok"

\* C24 as claimed: the step in which a Bing or Google attempt that got a
\* descriptor from get_next_proxy returns adds one to the success_count
\* (Ok) or the failure_count (Err) of that descriptor.
C24_OutcomeRecorded ==
    [][(/\ tab.fn \in {"search_bing", "search_google_attempt"}
        /\ tab.proxy # None
        /\ tab.ret = None /\ tab'.ret # None) =>
          \E i \in 1..Len(pool.proxies) :
             /\ pool.proxies[i].id = tab.proxy[1]
             /\ pool'.proxies[i].success_count + pool'.proxies[i].failure_count
                  = pool.proxies[i].success_count + pool.proxies[i].failure_count + 1]_vars

\* C25: the calls of get_next made since the pool last changed, by whatever
\* callers, returned every descriptor in rotation floor(N/K) or ceil(N/K)
\* times for N calls and K descriptors in rotation, each call returning the
\* descriptor that follows the previous one in insertion order (the first
\* after the last); with no descriptor in rotation every call returned none.
C25_FairRoundRobin ==
    LET rotation == SelectSeq(pool.proxies, LAMBDA d : d.enabled)
        K == Len(rotation)
        N == Len(pool.served)
        times(id) == Cardinality({i \in 1..N : pool.served[i] = Some(id)})
    IN /\ (K = 0) => \A i \in 1..N : pool.served[i] = None
       /\ (K > 0) =>
             /\ \A k \in 1..K :
                   times(rotation[k].id) \in {N \div K, (N + K - 1) \div K}
             /\ \A i \in 1..(N - 1) :
                   \E k \in 1..K :
                      /\ pool.served[i] = Some(rotation[k].id)
                      /\ pool.served[i + 1] = Some(rotation[(k % K) + 1].id)

\* three calls over two descriptors: one was returned twice, the other once
C25_Witness ==
    /\ Len(SelectSeq(pool.proxies, LAMBDA d : d.enabled)) = 2
    /\ Len(pool.served) = 3
    /\ pool.served[1] = pool.served[3]
    /\ pool.served[1] # pool.served[2]

TrailingFailures(log) ==
    Cardinality({k \in 1..Len(log) : \A i \in (Len(log) - k + 1)..Len(log) : ~log[i]})

C29_PassThrough ==
    (/\ redirect # None
     /\ ~(/\ contains(redirect[1].url,
                      <<98, 105, 110, 103, 46, 99, 111, 109, 47, 99, 107, 47, 97>>)
          /\ contains(redirect[1].url, <<38, 117, 61>>))
     /\ ~(/\ contains(redirect[1].url,
                      <<103, 111, 111, 103, 108, 101, 46, 99, 111, 109, 47,
                        117, 114, 108>>)
          /\ \/ contains(redirect[1].url, <<38, 117, 114, 108, 61>>)
             \/ contains(redirect[1].url, <<63, 117, 114, 108, 61>>))) =>
        /\ redirect[1].actual_url = redirect[1].url
        /\ decode_search_url(redirect[1].actual_url) = redirect[1].actual_url

\* the url http://example.test/?p=0&u=a1aA== (a parameter u, not a Bing
\* url) was given and returned
C29_Witness ==
    /\ redirect # None
    /\ redirect[1].url =
          <<104, 116, 116, 112, 58, 47, 47, 101, 120, 97, 109, 112, 108, 101,
            46, 116, 101, 115, 116, 47, 63, 112, 61, 48, 38, 117, 61, 97, 49,
            97, 65, 61, 61>>
    /\ redirect[1].actual_url = redirect[1].url

\* C30: for a destination d, decode_search_url of the Bing link
\* https://www.bing.com/ck/a?!&&p=0&u=a1<base64 of d>&ntb=1 is d.
C30_BingRoundTrip ==
    \A d \in Destinations(MaxDestLen) :
       (redirect # None /\ redirect[1].url = bing_wrapper(d)) =>
           redirect[1].actual_url = d

\* the destination ">>?" with the base64 encoding "Pj4/" ('/' in the u
\* parameter of the link) came back
C30_Witness ==
    /\ redirect # None
    /\ redirect[1].url = bing_wrapper(<<62, 62, 63>>)
    /\ contains(redirect[1].url, <<97, 49, 80, 106, 52, 47>>)
    /\ redirect[1].actual_url = <<62, 62, 63>>


(***************************************************************************)
(* C31: once the page was read, a failure of any single step of the        *)
(* content-extraction pass (title, meta tags, main text including the      *)
(* parse of the final URL, structured data, Open Graph, contacts, images,  *)
(* links) leaves a field empty or absent and extract_website_data still    *)
(* returns a WebsiteData: the pass never returns an error.                 *)
(***************************************************************************)
C31_EveryStepTolerant ==
    site.ret # None => site.ret[1].tag = "Ok"

(***************************************************************************)
(* C32: every WebsiteData returned has at most 20 images and at most 50    *)
(* outbound links, no outbound link twice and none whose host is the host  *)
(* of the page, no email and no phone number twice, every phone number of  *)
(* length 7 or more, and for "contact a@b.com or a@b.com" exactly the one  *)
(* email a@b.com.                                                          *)
(***************************************************************************)
NoDuplicates(seq) == \A i, k \in 1..Len(seq) : seq[i] = seq[k] => i = k

C32_CapsAndSets ==
    (site.ret # None /\ site.ret[1].tag = "Ok") =>
        LET data == site.ret[1].value
        IN /\ Len(data.images) <= ImageCap
           /\ Len(data.outbound_links) <= LinkCap
           /\ NoDuplicates(data.outbound_links)
           /\ \A i \in 1..Len(data.outbound_links) :
                 Url_parse(data.outbound_links[i]).tag = "Ok"
                    => Url_parse(data.outbound_links[i]).value.host
                          # Url_parse(data.final_url).value.host
           /\ NoDuplicates(data.emails)
           /\ NoDuplicates(data.phone_numbers)
           /\ \A i \in 1..Len(data.phone_numbers) :
                 text_len(data.phone_numbers[i]) >= PhoneMinLen
           /\ site.doc.html_text = HomeDoc.html_text
                 => data.emails = <<<<"a", "@", "b", ".", "c", "o", "m">>>>

(***************************************************************************)
(* C33: within one search attempt the states are visited strictly in the   *)
(* order LAUNCH, NAVIGATE_HOME, CONSENT_CHECK (Google only), TYPE_QUERY,   *)
(* SUBMIT, AUTOCORRECT_CHECK (Google only), SETTLE, CHALLENGE_CHECK,       *)
(* EXTRACT, DONE, none skipped and none revisited (so the handling of the  *)
(* consent dialog is over before the first character is typed), and an     *)
(* attempt that fails goes from the state it is in to FAILED.              *)
(***************************************************************************)
AttemptStates(fn) ==
    IF fn = "search_google_attempt"
    THEN <<"LAUNCH", "NAVIGATE_HOME", "CONSENT_CHECK", "TYPE_QUERY", "SUBMIT",
           "AUTOCORRECT_CHECK", "SETTLE", "CHALLENGE_CHECK", "EXTRACT">>
    ELSE <<"LAUNCH", "NAVIGATE_HOME", "TYPE_QUERY", "SUBMIT", "SETTLE",
           "CHALLENGE_CHECK", "EXTRACT">>

C33_StrictStateOrder ==
    tab.fn \in {"search_bing", "search_google_attempt"} =>
        IF tab.ret = None THEN IsPrefix(tab.states, AttemptStates(tab.fn))
        ELSE IF tab.ret[1].tag = "Ok"
             THEN tab.states = AttemptStates(tab.fn) \o <<"DONE">>
             ELSE \E n \in 1..Len(AttemptStates(tab.fn)) :
                     tab.states = SubSeq(AttemptStates(tab.fn), 1, n) \o <<"FAILED">>

C35_FallbackChain ==
    /\ chain.evaluated # <<>> => chain.evaluated[1] = "dom_extract_script"
    /\ \A i \in 1..Len(chain.steps) :
          chain.steps[i] = "scan scripts" =>
              /\ i > 1 /\ chain.steps[i - 1] = "resultBlocks"
              /\ chain.page[1].blocks = 0
    /\ \A i \in 1..Len(chain.evaluated) :
          chain.evaluated[i] = "js_extract_script" =>
              /\ i = 2 /\ chain.outcomes[1] = "Err"
    /\ "window.google" \in Range(chain.steps) =>
          chain.evaluated = <<"dom_extract_script", "js_extract_script">>
    /\ chain.at = "done" =>
          /\ chain.extraction_method \in ExtractionMethods
          /\ chain.extraction_method = "dom" =>
                chain.results = dom_extract_script(chain.page[1]).results
          /\ chain.extraction_method = "js_context" =>
                /\ chain.outcomes[1] = "Err"
                /\ chain.results \in {<<>>, js_extract_script(chain.page[1]).results}
          /\ chain.extraction_method \in {"script_fallback", "fallback"} =>
                chain.results = <<>>
          /\ Len(chain.results) <= ResultCap
          /\ (\A i \in 1..Len(chain.outcomes) : chain.outcomes[i] # "Ok string")
                => chain.results = <<>>

\* the structural script failed and the results were read from the
\* script-context global
C35_Witness ==
    /\ chain.at = "done"
    /\ chain.outcomes = <<"Err", "Ok string">>
    /\ chain.extraction_method = "js_context"
    /\ Len(chain.results) = ResultCap


(***************************************************************************)
(* C36: every attempt that ends on a detected challenge or with zero       *)
(* results has written the raw HTML under debug/ and appended one line     *)
(* (timestamp, engine, keyword, reason, HTML length) to the failure log    *)
(* before it returns, and an attempt that returned results appended none.  *)
(***************************************************************************)
C36_FailureDiagnostics ==
    /\ ( /\ call.fn = "search_bing" /\ call.pc = "returned"
         /\ \/ call.ret = Some(Err(<<"Bing Challenge Detected">>))
            \/ call.ret = Some(Ok([results |-> <<>>])) )
       => /\ call.debug # {}
          /\ Len(call.failure_log) = 1
          /\ call.failure_log[1].engine = "bing"
          /\ call.failure_log[1].keyword = call.keyword
          /\ call.failure_log[1].html_len = call.page[1].len
    /\ ( /\ call.fn = "search_google" /\ call.page # None
         /\ GoogleResults(call.method, call.page[1]) = <<>> )
       => /\ call.debug # {}
          /\ call.failure_log # <<>>
    /\ ( /\ call.pc = "returned" /\ call.ret[1].tag = "Ok"
         /\ call.ret[1].value.results # <<>> )
       => Len(call.failure_log) <= call.attempt - 1


(***************************************************************************)
(* C37: a failed deep extraction never fails the job.  Leaving the         *)
(* extraction step never ends process_job; with no extracted data (the     *)
(* extraction returned Err, or the search had no first result) no blob is  *)
(* written, and the INSERT that succeeds writes a record with status       *)
(* 'completed', the serialized SerpData, empty text and HTML and no        *)
(* metadata.                                                               *)
(***************************************************************************)
C37_ExtractionFailureTolerated ==
    [][\A w \in workers :
          /\ (pc[w] = "extract" /\ pc'[w] # "extract") =>
                /\ workerLog' = workerLog
                /\ queue' = queue
                /\ job'[w] # None => pc'[w] = "store"
          /\ (pc[w] = "store" /\ first[w] = None /\ pc'[w] = "insert") =>
                /\ blobs' = blobs
                /\ upload'[w] = None
          /\ (pc[w] = "insert" /\ first[w] = None /\ upload[w] = None
                /\ Len(workerLog') > Len(workerLog)
                /\ workerLog'[Len(workerLog')].result = "completed") =>
                /\ job[w][1].id \in DOMAIN db'
                /\ db'[job[w][1].id] =
                      [id |-> job[w][1].id, keyword |-> job[w][1].keyword,
                       engine |-> job[w][1].engine, status |-> "completed",
                       results_json |-> results_json(serp[w][1]),
                       extracted_text |-> "", first_page_html |-> "",
                       meta_description |-> None, meta_author |-> None,
                       meta_date |-> None]]_vars

\* the search returned a first result, its extraction failed, the upload
\* was skipped and the record is about to be inserted
C37_Witness ==
    \E w \in workers :
        /\ pc[w] = "insert"
        /\ stepLog[w] = <<"search_google", "extract_website_data", "store">>
        /\ first[w] = None /\ upload[w] = None
        /\ TaskRow(job[w][1].id, job[w][1].keyword, job[w][1].engine,
                   serp[w][1], first[w]).status = "completed"


(***************************************************************************)
(* C39: the dispatch on the engine is total.  The step that leaves the     *)
(* search with a result ran search_google for "google", generic_crawl (on  *)
(* the job's target) for "generic" and search_bing for every other engine  *)
(* string, "bing" and unknown names alike; a job that fails in the search  *)
(* step fails with the error of the search; the key of the uploaded blob   *)
(* and the inserted record carry the engine string of the job.             *)
(***************************************************************************)
C39_DispatchTotal ==
    [][\A w \in workers :
          /\ (pc[w] = "search" /\ pc'[w] \in {"extract", "store"}) =>
                /\ job[w][1].engine = "google" => stepLog'[w] = <<"search_google">>
                /\ job[w][1].engine = "generic" =>
                      /\ stepLog'[w] = <<"generic_crawl">>
                      /\ serp'[w][1].results = <<job[w][1].keyword>>
                /\ job[w][1].engine \notin {"google", "generic"} =>
                      stepLog'[w] = <<"search_bing">>
          /\ (pc[w] = "search" /\ Len(workerLog') > Len(workerLog)) =>
                workerLog'[Len(workerLog')].error = "search"
          /\ (pc[w] = "store" /\ upload'[w] # None) =>
                upload'[w][1].key = <<job[w][1].engine, "/", job[w][1].id, ".html">>
          /\ (pc[w] = "insert" /\ Len(workerLog') > Len(workerLog)
                /\ workerLog'[Len(workerLog')].result = "completed") =>
                db'[job[w][1].id].engine = job[w][1].engine]_vars

\* a job with an engine name the worker does not know was searched with
\* search_bing, its page uploaded and its record inserted under that name
C39_Witness ==
    /\ \E id \in DOMAIN db : db[id].engine = "yahoo"
    /\ \E k \in DOMAIN blobs : k[1] = "yahoo"


(***************************************************************************)
(* C38: startup always terminates.  The connection loop of main() is left  *)
(* after at most 15 failed attempts and the bucket loop of                 *)
(* StorageManager::new after at most 30 failed iterations, whatever the    *)
(* stores answer, and the worker and the scheduler are spawned only after  *)
(* the database, the blob store and the queue were initialised.            *)
(***************************************************************************)
C38_StartupTerminates ==
    /\ boot.db_attempts <= DbAttempts
    /\ boot.pc = "connect" => boot.db_attempts < DbAttempts
    /\ boot.failed <= BucketAttempts
    /\ boot.pc \in {"head_bucket", "create_bucket"} => boot.failed < BucketAttempts
    /\ boot.spawned # {} => boot.initialised = {"database", "storage", "queue"}

====
